---- MODULE Spec2Model ----
(***************************************************************************)
(* A model of the TraceBook front-end components:                          *)
(*   - HeaderBar.groupedByMap            (SpecHeader)                      *)
(*   - geminiService.generateFoodDescription (SpecGemini)                  *)
(*   - PendingScreen's resend cooldown   (SpecPending)                     *)
(*   - SiteManagementModal, both variants (SpecAdmin, SpecAdminFair)       *)
(*   - Tutorial overlay                  (SpecTutorial, SpecCard)          *)
(*   - HeaderBar's notification panel    (SpecNotif)                       *)
(* Each component has its own variables, initial state and next-state      *)
(* relation; a component's specification keeps the other components'       *)
(* variables at their initial values.                                      *)
(***************************************************************************)
EXTENDS Integers, Sequences, FiniteSets, Bags, TLC

VARIABLES
    hbRestaurants,   \* prop allRestaurantsWithMaps: sequence of RestaurantWithMap
    hbActiveMapId,   \* prop activeMapId ("none": undefined)
    hbGrouped,       \* the memoised groupedByMap value of the current props
    hbOp,            \* the last change of the props: "init" | "add" | "reorder" | "active"
    gmPc,         \* "idle" | "fetch" | "blob" | "read" | "generate" | "resolved" | "rejected"
    gmImage,      \* argument base64Image: [prefix, payload]
    gmPrompt,     \* <<restaurantName, userComment>>, the two holes of the prompt template
    gmClean,      \* local cleanBase64: [prefix, payload], or NoImage
    gmSent,       \* the inlineData.data handed to generateContent, or NoImage
    gmModelText,  \* response.text of a model call that succeeded, or NoValue
    gmThrew,      \* the step that threw or rejected in this call, or "none"
    gmResult,     \* the value the returned promise resolved to, or NoValue
    resendCooldown,   \* state resendCooldown
    psTimer,          \* the value captured by the pending one-second timer, or NoTimer
    psInflight,       \* calls of onResendVerification not yet settled
    psEmailVerified,  \* prop emailVerified
    psAdminApproved,  \* prop adminApproved
    psOp,             \* the last step: "init" | "click" | "resolved" | "rejected" | "tick" | "props"
    adVariant,         \* which file is mounted: "first" | "stats"
    adEmailVerified,   \* emailVerified of each user document (not written by the modal)
    db,                \* collection 'users': document id -> [status, approvedBy]
    notifications,     \* collection 'notifications', type 'join_approved': recipientUid -> number
    users,             \* state users: id -> [status, approvedBy] (the list is ordered by createdAt)
    isLoading,         \* state isLoading
    fetchError,        \* state fetchError ("null" or a message)
    actionLoading,     \* state actionLoading ("null" or a user id)
    selectedUser,      \* state selectedUser (NoUser: null)
    showDeleteConfirm, \* state showDeleteConfirm (first variant)
    currentView,       \* state currentView
    userStats,         \* state userStats (stats variant): "null" | "zeros" | the user counted
    isLoadingStats,    \* state isLoadingStats (stats variant)
    adInflight,        \* async handlers suspended at an await (a bag: they resume in any order)
    adTimers,          \* pending 150 ms timers, in the order they were set
    resendingEmail,    \* state resendingEmail (first variant)
    resendSuccess,     \* state resendSuccess (first variant)
    adSuccessTimers,   \* pending 3 s timers that clear resendSuccess (first variant)
    isSendingReminder, \* state isSendingReminder (stats variant)
    reminderSent,      \* state reminderSent (stats variant)
    reminders,         \* collection 'notifications', type 'system': recipientUid -> number
    adEvent,           \* the last step taken: [op, uid, updated, notifs, prior, message]
    isActive,          \* Tutorial prop isActive
    currentStep,       \* Tutorial state currentStep
    isTransitioning,   \* Tutorial state isTransitioning
    isVisible,         \* Tutorial state isVisible
    highlightRect,     \* Tutorial state highlightRect (NoRect: null)
    domRect,           \* getBoundingClientRect() of the element the current step's
                       \* selector finds now (NoRect: no selector or no element)
    viewport,          \* [width |-> window.innerWidth, height |-> window.innerHeight]
    ttTimers,          \* pending setTimeout callbacks, in the order they were set
    ttRafPending,      \* a requestAnimationFrame callback is pending
    ttEvent,           \* the last step taken: [op, idx, origin, forwarded]
    showNotifications, \* HeaderBar prop showNotifications
    isNotifOpen,       \* HeaderBar state isNotifOpen
    isNotifClosing,    \* HeaderBar state isNotifClosing
    nfTimers,          \* pending 300 ms close timers: the time left of each, in
                       \* the order they were set
    nfCloseIssued,     \* a close action was issued since the panel was last opened
    nfOp               \* the last step taken

hbVars == <<hbRestaurants, hbActiveMapId, hbGrouped, hbOp>>

gmVars == <<gmPc, gmImage, gmPrompt, gmClean, gmSent, gmModelText, gmThrew, gmResult>>

psVars == <<resendCooldown, psTimer, psInflight, psEmailVerified, psAdminApproved, psOp>>

adVars == <<adVariant, adEmailVerified, db, notifications, users, isLoading,
            fetchError, actionLoading, selectedUser, showDeleteConfirm,
            currentView, userStats, isLoadingStats, adInflight, adTimers, adEvent,
            resendingEmail, resendSuccess, adSuccessTimers, isSendingReminder,
            reminderSent, reminders>>

ttVars == <<isActive, currentStep, isTransitioning, isVisible, highlightRect,
            domRect, viewport, ttTimers, ttRafPending, ttEvent>>

nfVars == <<showNotifications, isNotifOpen, isNotifClosing, nfTimers,
            nfCloseIssued, nfOp>>

vars == <<hbVars, gmVars, psVars, adVars, ttVars, nfVars>>

\* A step of one component leaves the other components alone.
HbFrame == UNCHANGED <<gmVars, psVars, adVars, ttVars, nfVars>>
GmFrame == UNCHANGED <<hbVars, psVars, adVars, ttVars, nfVars>>
PsFrame == UNCHANGED <<hbVars, gmVars, adVars, ttVars, nfVars>>
AdFrame == UNCHANGED <<hbVars, gmVars, psVars, ttVars, nfVars>>
TtFrame == UNCHANGED <<hbVars, gmVars, psVars, adVars, nfVars>>
NfFrame == UNCHANGED <<hbVars, gmVars, psVars, adVars, ttVars>>

\* ------------------------------------------------------------------------
\* Bounds of the model
\* ------------------------------------------------------------------------

\* longest allRestaurantsWithMaps list handed to HeaderBar
MaxLen == 3

\* ========================================================================
\* HeaderBar: groupedByMap
\* ========================================================================


\* Sample restaurant names and the maps of the test data. Two maps share the
\* display name "Trips". Map ids are document ids (not integer-like strings), so
\* Object.entries enumerates the groups in insertion order.
RestaurantNames == {"Alpha", "Bistro"}
MapIds == {"m1", "m2", "m3"}
ActiveMapIds == MapIds \cup {"none"}

MapNameOf(m) ==
    CASE m = "m1" -> "Home"
      [] m = "m2" -> "Trips"
      [] m = "m3" -> "Trips"

\* The position of a string in the locale's collation order.
CollationKey(s) ==
    CASE s = "Alpha"  -> 1
      [] s = "Bistro" -> 2
      [] s = "Home"   -> 1
      [] s = "Trips"  -> 2

\* String.prototype.localeCompare: negative, zero or positive.
LocaleCompare(a, b) ==
    IF CollationKey(a) < CollationKey(b) THEN -1
    ELSE IF CollationKey(a) > CollationKey(b) THEN 1
    ELSE 0

\* (a, b) => a.name.localeCompare(b.name)
CompareRestaurants(a, b) == LocaleCompare(a.name, b.name)

\* Faulty variant of the comparator below: the active map gets no precedence.
CompareEntriesNoActive(a, b, active) == LocaleCompare(a.mapName, b.mapName)

\* ([idA, groupA], [idB, groupB]) => ... : current map first, then by map name
CompareEntries(a, b, active) ==
    IF a.mapId = active THEN -1
    ELSE IF b.mapId = active THEN 1
    ELSE LocaleCompare(a.mapName, b.mapName)

\* Array.prototype.sort is stable: x goes behind every element that does not
\* compare greater than it.
RECURSIVE InsertRestaurant(_, _)
InsertRestaurant(sorted, x) ==
    IF sorted = <<>> THEN <<x>>
    ELSE IF CompareRestaurants(sorted[Len(sorted)], x) > 0
         THEN Append(InsertRestaurant(SubSeq(sorted, 1, Len(sorted) - 1), x),
                     sorted[Len(sorted)])
         ELSE Append(sorted, x)

RECURSIVE SortRestaurantsFrom(_, _)
SortRestaurantsFrom(rest, sorted) ==
    IF rest = <<>> THEN sorted
    ELSE SortRestaurantsFrom(Tail(rest), InsertRestaurant(sorted, Head(rest)))

\* group.restaurants.sort((a, b) => a.name.localeCompare(b.name))
SortRestaurants(rs) == SortRestaurantsFrom(rs, <<>>)

RECURSIVE InsertEntry(_, _, _)
InsertEntry(sorted, x, active) ==
    IF sorted = <<>> THEN <<x>>
    ELSE IF CompareEntries(sorted[Len(sorted)], x, active) > 0
         THEN Append(InsertEntry(SubSeq(sorted, 1, Len(sorted) - 1), x, active),
                     sorted[Len(sorted)])
         ELSE Append(sorted, x)

RECURSIVE SortEntriesFrom(_, _, _)
SortEntriesFrom(rest, sorted, active) ==
    IF rest = <<>> THEN sorted
    ELSE SortEntriesFrom(Tail(rest), InsertEntry(sorted, Head(rest), active), active)

\* entries.sort(...)
SortEntries(entries, active) == SortEntriesFrom(entries, <<>>, active)

\* Faulty variant of the forEach body below: a new group starts empty.
PushRestaurantLosingFirst(groups, r) ==
    IF \E i \in DOMAIN groups : groups[i].mapId = r.mapId
    THEN [i \in DOMAIN groups |->
            IF groups[i].mapId = r.mapId
            THEN [groups[i] EXCEPT !.restaurants = Append(@, r)]
            ELSE groups[i]]
    ELSE Append(groups, [mapId |-> r.mapId, mapName |-> r.mapName,
                         restaurants |-> <<>>])

\* The body of the forEach: create the group of r.mapId on its first restaurant
\* (taking that restaurant's mapName), then push r to it.
PushRestaurant(groups, r) ==
    IF \E i \in DOMAIN groups : groups[i].mapId = r.mapId
    THEN [i \in DOMAIN groups |->
            IF groups[i].mapId = r.mapId
            THEN [groups[i] EXCEPT !.restaurants = Append(@, r)]
            ELSE groups[i]]
    ELSE Append(groups, [mapId |-> r.mapId, mapName |-> r.mapName,
                         restaurants |-> <<r>>])

RECURSIVE BuildGroups(_, _)
BuildGroups(input, groups) ==
    IF input = <<>> THEN groups
    ELSE BuildGroups(Tail(input), PushRestaurant(groups, Head(input)))

\* useMemo(() => {...}, [allRestaurantsWithMaps, activeMapId])
GroupedByMap(input, active) ==
    LET groups == BuildGroups(input, <<>>)
        sortedInside == [i \in DOMAIN groups |->
                           [groups[i] EXCEPT !.restaurants = SortRestaurants(@)]]
    IN  SortEntries(sortedInside, active)

HbInit ==
    /\ hbRestaurants = <<>>
    /\ hbActiveMapId = "none"
    /\ hbGrouped = GroupedByMap(<<>>, "none")
    /\ hbOp = "init"

\* The parent passes a list with one more restaurant.
HbAddRestaurant ==
    /\ Len(hbRestaurants) < MaxLen
    /\ \E n \in RestaurantNames, m \in MapIds :
         LET r == [id |-> Len(hbRestaurants) + 1, name |-> n,
                   mapId |-> m, mapName |-> MapNameOf(m)]
         IN  /\ hbRestaurants' = Append(hbRestaurants, r)
             /\ hbGrouped' = GroupedByMap(hbRestaurants', hbActiveMapId)
    /\ hbOp' = "add"
    /\ UNCHANGED hbActiveMapId
    /\ HbFrame

\* The parent passes the same restaurants in another order (two neighbours
\* swapped; every permutation is a sequence of such swaps).
HbReorder ==
    /\ \E i \in 1..(Len(hbRestaurants) - 1) :
         /\ hbRestaurants' = [hbRestaurants EXCEPT ![i] = hbRestaurants[i + 1],
                                                   ![i + 1] = hbRestaurants[i]]
         /\ hbGrouped' = GroupedByMap(hbRestaurants', hbActiveMapId)
    /\ hbOp' = "reorder"
    /\ UNCHANGED hbActiveMapId
    /\ HbFrame

\* The parent passes another activeMapId.
HbSetActiveMap ==
    /\ \E m \in ActiveMapIds :
         /\ m # hbActiveMapId
         /\ hbActiveMapId' = m
         /\ hbGrouped' = GroupedByMap(hbRestaurants, m)
    /\ hbOp' = "active"
    /\ UNCHANGED hbRestaurants
    /\ HbFrame

HbNext == HbAddRestaurant \/ HbReorder \/ HbSetActiveMap

\* ========================================================================
\* geminiService: generateFoodDescription
\* ========================================================================


NoValue == "<none>"
NoImage == [prefix |-> "<none>", payload |-> ""]
Undefined == "<undefined>"

FallbackDescription == "Could not generate description."
DefaultDescription == "Delicious!"

\* A string is modelled as its prefix up to and including the first comma (or
\* "blob:"), and the rest.
JpegPrefix == "data:image/jpeg;base64,"
ImagePrefixes == {"blob:", JpegPrefix, "data:image/png;base64,",
                  "data:image/gif;base64,", ""}
ImagePayloads == {"AAAA", "/9j/"}
Images == [prefix : ImagePrefixes, payload : ImagePayloads]
RestaurantNamesAndComments == {<<"Alpha", "">>, <<"Bistro", "so good">>}
\* What response.text can be: a caption, the empty string, or undefined.
ModelTexts == {"Golden and crispy!", FallbackDescription, "", Undefined}

\* /^data:image\/(png|jpeg|jpg|heic|webp);base64,/
MatchesDataUrlPrefix(prefix) ==
    prefix \in {"data:image/png;base64,", "data:image/jpeg;base64,",
                "data:image/jpg;base64,", "data:image/heic;base64,",
                "data:image/webp;base64,"}

\* base64Image.replace(/^data:image\/(png|jpeg|jpg|heic|webp);base64,/, '')
StripDataUrlPrefix(img) ==
    IF MatchesDataUrlPrefix(img.prefix)
    THEN [prefix |-> "", payload |-> img.payload]
    ELSE img

\* base64data.split(',')[1] of the data URL FileReader produced for the blob
SplitAfterComma(payload) == [prefix |-> "", payload |-> payload]

\* Faulty variant of the return below: the model's text is dropped.
ResponseTextAlwaysDefault(text) == DefaultDescription

\* response.text || "Delicious!"
ResponseText(text) ==
    IF text = "" \/ text = Undefined THEN DefaultDescription ELSE text

\* Faulty variant of the catch below: the SDK is constructed outside the try.
CatchOnlyAfterSdk(step) ==
    IF step = "sdk"
    THEN [pc |-> "rejected", result |-> NoValue]
    ELSE [pc |-> "resolved", result |-> FallbackDescription]

\* catch (error) { console.error(...); return "Could not generate description."; }
\* The try block spans the whole body, the SDK construction included.
Catch(step) == [pc |-> "resolved", result |-> FallbackDescription]

GmInit ==
    /\ gmPc = "idle"
    /\ gmImage = [prefix |-> "", payload |-> "AAAA"]
    /\ gmPrompt = <<"Alpha", "">>
    /\ gmClean = NoImage
    /\ gmSent = NoImage
    /\ gmModelText = NoValue
    /\ gmThrew = "none"
    /\ gmResult = NoValue

GmThrow(step) ==
    /\ gmPc' = Catch(step).pc
    /\ gmResult' = Catch(step).result
    /\ gmThrew' = step

\* generateFoodDescription(base64Image, userComment, restaurantName) up to its
\* first await: new GoogleGenAI, then the blob fetch or the prefix removal and
\* the generateContent request.
GmCall ==
    /\ gmPc \in {"idle", "resolved", "rejected"}
    /\ \E img \in Images, p \in RestaurantNamesAndComments, sdkThrows \in BOOLEAN :
         /\ gmImage' = img
         /\ gmPrompt' = p
         /\ gmModelText' = NoValue
         /\ IF sdkThrows
            THEN /\ GmThrow("sdk")
                 /\ gmClean' = NoImage
                 /\ gmSent' = NoImage
            ELSE /\ gmThrew' = "none"
                 /\ gmResult' = NoValue
                 /\ IF img.prefix = "blob:"
                    THEN /\ gmPc' = "fetch"
                         /\ gmClean' = img
                         /\ gmSent' = NoImage
                    ELSE /\ gmPc' = "generate"
                         /\ gmClean' = StripDataUrlPrefix(img)
                         /\ gmSent' = gmClean'
    /\ GmFrame

\* await fetch(base64Image)
GmFetchDone ==
    /\ gmPc = "fetch"
    /\ \E ok \in BOOLEAN :
         IF ok THEN gmPc' = "blob" /\ UNCHANGED <<gmThrew, gmResult>>
               ELSE GmThrow("fetch")
    /\ UNCHANGED <<gmImage, gmPrompt, gmClean, gmSent, gmModelText>>
    /\ GmFrame

\* await response.blob()
GmBlobDone ==
    /\ gmPc = "blob"
    /\ \E ok \in BOOLEAN :
         IF ok THEN gmPc' = "read" /\ UNCHANGED <<gmThrew, gmResult>>
               ELSE GmThrow("blob")
    /\ UNCHANGED <<gmImage, gmPrompt, gmClean, gmSent, gmModelText>>
    /\ GmFrame

\* await new Promise(...FileReader...): onloadend resolves with the part after
\* the comma, onerror rejects; then the generateContent request is sent.
GmReadDone ==
    /\ gmPc = "read"
    /\ \E ok \in BOOLEAN :
         IF ok
         THEN /\ gmPc' = "generate"
              /\ gmClean' = SplitAfterComma(gmImage.payload)
              /\ gmSent' = gmClean'
              /\ UNCHANGED <<gmThrew, gmResult>>
         ELSE /\ GmThrow("read")
              /\ UNCHANGED <<gmClean, gmSent>>
    /\ UNCHANGED <<gmImage, gmPrompt, gmModelText>>
    /\ GmFrame

\* await ai.models.generateContent(...); return response.text || "Delicious!"
GmGenerateDone ==
    /\ gmPc = "generate"
    /\ \/ \E text \in ModelTexts :
            /\ gmModelText' = text
            /\ gmResult' = ResponseText(text)
            /\ gmPc' = "resolved"
            /\ UNCHANGED gmThrew
       \/ /\ GmThrow("generate")
          /\ UNCHANGED gmModelText
    /\ UNCHANGED <<gmImage, gmPrompt, gmClean, gmSent>>
    /\ GmFrame

GmNext == GmCall \/ GmFetchDone \/ GmBlobDone \/ GmReadDone \/ GmGenerateDone

\* ========================================================================
\* PendingScreen: the resend cooldown
\* ========================================================================

\* resend requests (onResendVerification) outstanding at once
MaxResend == 2

\* setResendCooldown(60)
ResendCooldownSeconds == 60

NoTimer == -1


\* Faulty variant of the flag below: the email verification is not looked at.
IsManuallyApprovedIgnoringEmail == psAdminApproved

\* const isManuallyApproved = adminApproved && !emailVerified
IsManuallyApproved == psAdminApproved /\ ~psEmailVerified

\* {isManuallyApproved ? (<>Account Approved! ...</>) : (<>Verify Your Email ...</>)}
RenderedView == IF IsManuallyApproved THEN "manuallyApproved" ELSE "verification"

\* The resend section: the verification view, {!emailVerified && (...)}
ResendRendered == ~IsManuallyApproved /\ ~psEmailVerified

\* disabled={resendCooldown > 0}
ResendDisabled == resendCooldown > 0

\* useEffect(..., [resendCooldown]): when the value changed, the cleanup
\* clears the old timer and, if the new value is positive, a timer that
\* captures it is started; an unchanged value leaves the pending timer alone.
EffectTimer(old, new, timer) ==
    IF new = old THEN timer
    ELSE IF new > 0 THEN new ELSE NoTimer

\* Faulty variant of the timer callback below: it counts two per tick.
TimerCallbackMinusTwo(captured) == captured - 2

\* () => setResendCooldown(resendCooldown - 1)
TimerCallback(captured) == captured - 1

PsInit ==
    /\ resendCooldown = 0
    /\ psTimer = NoTimer
    /\ psInflight = 0
    /\ psEmailVerified = FALSE
    /\ psAdminApproved = FALSE
    /\ psOp = "init"

\* onClick={handleResendVerification}, up to await onResendVerification()
PsClickResend ==
    /\ ResendRendered
    /\ ~ResendDisabled
    /\ psInflight < MaxResend
    /\ psInflight' = psInflight + 1
    /\ psOp' = "click"
    /\ UNCHANGED <<resendCooldown, psTimer, psEmailVerified, psAdminApproved>>
    /\ PsFrame

\* onResendVerification() resolved: setResendCooldown(60)
PsResendResolved ==
    /\ psInflight > 0
    /\ psInflight' = psInflight - 1
    /\ resendCooldown' = ResendCooldownSeconds
    /\ psTimer' = EffectTimer(resendCooldown, resendCooldown', psTimer)
    /\ psOp' = "resolved"
    /\ UNCHANGED <<psEmailVerified, psAdminApproved>>
    /\ PsFrame

\* onResendVerification() rejected: the catch only logs
PsResendRejected ==
    /\ psInflight > 0
    /\ psInflight' = psInflight - 1
    /\ psOp' = "rejected"
    /\ UNCHANGED <<resendCooldown, psTimer, psEmailVerified, psAdminApproved>>
    /\ PsFrame

\* The one-second timer fires.
PsTick ==
    /\ psTimer # NoTimer
    /\ resendCooldown' = TimerCallback(psTimer)
    /\ psTimer' = EffectTimer(resendCooldown, resendCooldown', NoTimer)
    /\ psOp' = "tick"
    /\ UNCHANGED <<psInflight, psEmailVerified, psAdminApproved>>
    /\ PsFrame

\* The parent re-renders with other props (a status refresh).
PsPropsChange ==
    /\ \E ev \in BOOLEAN, aa \in BOOLEAN :
         /\ <<ev, aa>> # <<psEmailVerified, psAdminApproved>>
         /\ psEmailVerified' = ev
         /\ psAdminApproved' = aa
    /\ psOp' = "props"
    /\ UNCHANGED <<resendCooldown, psTimer, psInflight>>
    /\ PsFrame

PsNext ==
    PsClickResend \/ PsResendResolved \/ PsResendRejected \/ PsTick \/ PsPropsChange

\* ========================================================================
\* SiteManagementModal (first variant: SiteManagementModal.tsx, stats
\* variant: SiteManagementModal_1.tsx) and the document store it talks to
\* ========================================================================

\* backend calls of the modal outstanding at once
MaxInflight == 2
\* view-transition timers (setTimeout 150 ms) pending at once
MaxTimers == 1
\* welcome notifications per user after which no further approve is started
MaxNotifs == 2
\* verification reminders per user after which no further reminder is started
MaxReminders == 1


UserIds == {"u1", "u2"}

\* role of each user document (not written by the modal)
Role(u) == IF u = "u2" THEN "admin" ELSE "user"

NoUser == [id |-> "null", status |-> "-", approvedBy |-> "-"]

DetailViews == {"pendingUserDetail", "approvedUserDetail", "userDetail"}

Event(op, uid, updated, notifs) ==
    [op |-> op, uid |-> uid, updated |-> updated, notifs |-> notifs,
     prior |-> "-", message |-> "-"]


\* error.message of a rejected getDocs: absent/empty, or a text
ErrorMessages == {"", "Missing or insufficient permissions."}

DefaultFetchError == "Failed to fetch users. Check Firestore rules."

\* Faulty variant of the text below: no default for an error without message.
FetchErrorTextMessageOnly(message) == message

\* setFetchError(error.message || 'Failed to fetch users. Check Firestore rules.')
FetchErrorText(message) == IF message # "" THEN message ELSE DefaultFetchError

\* An async handler suspended at an await. selId and view are the
\* selectedUser?.id and currentView of the render whose closure is running.
Request(kind, uid, pc) ==
    [kind |-> kind, uid |-> uid, pc |-> pc, selId |-> selectedUser.id,
     view |-> currentView, updated |-> FALSE, notifs |-> 0, prior |-> "-"]

Timer(kind, view, uid) == [kind |-> kind, view |-> view, uid |-> uid]

\* the list entry of u as an object
ListEntry(u) == [id |-> u, status |-> users[u].status, approvedBy |-> users[u].approvedBy]

\* users.filter(...) of the two files
PendingUsers ==
    IF adVariant = "first"
    THEN {u \in DOMAIN users : ~adEmailVerified[u] \/ users[u].status # "approved"}
    ELSE {u \in DOMAIN users : users[u].status = "pending"}

ApprovedUsers ==
    IF adVariant = "first"
    THEN {u \in DOMAIN users : users[u].status = "approved" /\ adEmailVerified[u]}
    ELSE {u \in DOMAIN users : users[u].status = "approved"}

\* isLoading ? spinner : fetchError ? banner : lists
ListsRendered == currentView = "users" /\ ~isLoading /\ fetchError = "null"
ErrorBannerRendered == currentView = "users" /\ ~isLoading /\ fetchError # "null"

\* Faulty variant of the prompt below: the answer is ignored.
ConfirmGateIgnored(confirmed) == TRUE

\* if (!window.confirm(...)) return;
ConfirmGate(confirmed) == confirmed

\* The Approve and Reject controls for user u.
\* first: pendingUserDetail, {selectedUser.status !== 'approved' && ...},
\*        disabled={actionLoading === selectedUser.id}
\* stats: a row of pendingUsers, {actionLoading === user.id ? spinner : buttons}
ApproveRejectEnabled(u) ==
    IF adVariant = "first"
    THEN /\ currentView = "pendingUserDetail"
         /\ selectedUser # NoUser
         /\ selectedUser.id = u
         /\ selectedUser.status # "approved"
         /\ actionLoading # u
    ELSE /\ ListsRendered
         /\ u \in PendingUsers
         /\ actionLoading # u

\* first variant, approvedUserDetail: {selectedUser.role !== 'admin' && (...)}
DeleteSectionRendered(u) ==
    /\ adVariant = "first"
    /\ currentView = "approvedUserDetail"
    /\ selectedUser # NoUser
    /\ selectedUser.id = u
    /\ Role(u) # "admin"

\* Faulty variant of the control below: Confirm Delete is wired up without
\* the showDeleteConfirm prompt.
ConfirmDeleteEnabledWithoutPrompt(u) ==
    DeleteSectionRendered(u) /\ actionLoading # u

\* first variant: {!showDeleteConfirm ? Delete User : Cancel / Confirm Delete},
\* Confirm Delete disabled={actionLoading === selectedUser.id}
ConfirmDeleteEnabled(u) ==
    DeleteSectionRendered(u) /\ showDeleteConfirm /\ actionLoading # u

\* stats variant: the trash button of an approvedUsers row
RowDeleteEnabled(u) ==
    /\ adVariant = "stats"
    /\ ListsRendered
    /\ u \in ApprovedUsers
    /\ actionLoading # u

\* stats variant: the Delete User button of the userDetail view
DetailDeleteEnabled(u) ==
    /\ adVariant = "stats"
    /\ currentView = "userDetail"
    /\ selectedUser # NoUser
    /\ selectedUser.id = u

\* Faulty variant of the recipient below: the user whose detail is open.
WelcomeRecipientSelected(userId) ==
    IF selectedUser # NoUser THEN selectedUser.id ELSE userId

\* addDoc(notificationsRef, { recipientUid: userId, ... })
WelcomeRecipient(userId) == userId

\* Faulty variant of the write below: one welcome document per recipient, as
\* a write under a fixed document id would give.
AddDocOncePerRecipient(collection, recipient) ==
    [collection EXCEPT ![recipient] = 1]

\* await addDoc(notificationsRef, {...}): a new document under a fresh id,
\* whatever the collection already holds
AddDoc(collection, recipient) == [collection EXCEPT ![recipient] = @ + 1]

\* The fields updateDoc writes on approve: the first variant tracks the
\* admin approval (approvedBy, approvedAt, written together), the stats
\* variant writes the status alone.
ApprovedFields(rec) ==
    IF adVariant = "first"
    THEN [rec EXCEPT !.status = "approved", !.approvedBy = "admin"]
    ELSE [rec EXCEPT !.status = "approved"]

RejectedFields(rec) == [rec EXCEPT !.status = "rejected"]

\* useState<UserWithId[]>([])
NoUsers == [u \in {} |-> [status |-> "-", approvedBy |-> "-"]]

InitialDb ==
    [u \in UserIds |->
        IF u = "u1" THEN [status |-> "pending", approvedBy |-> ""]
                    ELSE [status |-> "approved", approvedBy |-> ""]]

AdInit ==
    /\ adVariant \in {"first", "stats"}
    /\ adEmailVerified \in {f \in [UserIds -> BOOLEAN] : f["u2"]}
    /\ db = InitialDb
    /\ notifications = [u \in UserIds |-> 0]
    /\ users = NoUsers
    /\ isLoading = FALSE
    /\ fetchError = "null"
    /\ actionLoading = "null"
    /\ selectedUser = NoUser
    /\ showDeleteConfirm = FALSE
    /\ currentView = "menu"
    /\ userStats = "null"
    /\ isLoadingStats = FALSE
    /\ adInflight = EmptyBag
    /\ adTimers = <<>>
    /\ adEvent = Event("init", "null", FALSE, 0)
    /\ resendingEmail = FALSE
    /\ resendSuccess = FALSE
    /\ adSuccessTimers = 0
    /\ isSendingReminder = FALSE
    /\ reminderSent = FALSE
    /\ reminders = [u \in UserIds |-> 0]

adFixed == <<adVariant, adEmailVerified>>

\* The state of the resend and reminder controls of the detail views
adResendVars == <<resendingEmail, resendSuccess, adSuccessTimers>>
adReminderVars == <<isSendingReminder, reminderSent, reminders>>

FetchRequest ==
    [kind |-> "fetch", uid |-> "null", pc |-> "getDocs", selId |-> "null",
     view |-> "-", updated |-> FALSE, notifs |-> 0, prior |-> "-"]

StatsRequest(u) ==
    [kind |-> "stats", uid |-> u, pc |-> "maps", selId |-> "null",
     view |-> "-", updated |-> FALSE, notifs |-> 0, prior |-> "-"]

\* onClick={() => navigateTo('users')} of the menu view
AdNavigateToUsers ==
    /\ currentView = "menu"
    /\ Len(adTimers) < MaxTimers
    /\ adTimers' = Append(adTimers, Timer("nav", "users", "null"))
    /\ adEvent' = Event("navigate", "null", FALSE, 0)
    /\ UNCHANGED <<adFixed, db, notifications, users, isLoading, fetchError,
                   actionLoading, selectedUser, showDeleteConfirm, currentView,
                   userStats, isLoadingStats, adInflight>>
    /\ UNCHANGED <<adResendVars, adReminderVars>>
    /\ AdFrame

\* onClick={goBack} of the header, up to the setTimeout. The timer's closure
\* holds the currentView of this render.
AdGoBack ==
    /\ currentView # "menu"
    /\ Len(adTimers) < MaxTimers
    /\ showDeleteConfirm' = FALSE
    /\ adTimers' = Append(adTimers, Timer("back", currentView, "null"))
    /\ adEvent' = Event("goBack", "null", FALSE, 0)
    /\ UNCHANGED <<adFixed, db, notifications, users, isLoading, fetchError,
                   actionLoading, selectedUser, currentView, userStats,
                   isLoadingStats, adInflight>>
    /\ resendSuccess' = IF adVariant = "first" THEN FALSE ELSE resendSuccess
    /\ UNCHANGED <<resendingEmail, adSuccessTimers, adReminderVars>>
    /\ AdFrame

\* The view a timer callback sets.
TimerView(t) ==
    CASE t.kind = "nav"    -> t.view
      [] t.kind = "back"   -> IF t.view \in DetailViews THEN "users" ELSE "menu"
      [] t.kind = "detail" -> "userDetail"

\* The oldest 150 ms timer fires: the callback of navigateTo, goBack or
\* viewUserDetail, then the effect on [currentView] (fetchUsers up to its
\* await when the view became 'users'); viewUserDetail's callback calls
\* fetchUserStats(user.id) up to its first await.
AdTimerFires ==
    /\ adTimers # <<>>
    /\ LET t == Head(adTimers)
           fetches == TimerView(t) = "users" /\ currentView # "users"
           stats == t.kind = "detail"
           leavesDetail == t.kind = "back" /\ t.view \in DetailViews
       IN  /\ (fetches \/ stats) => BagCardinality(adInflight) < MaxInflight
           /\ currentView' = TimerView(t)
           /\ adTimers' = Tail(adTimers)
           /\ selectedUser' = IF leavesDetail THEN NoUser ELSE selectedUser
           /\ userStats' = IF leavesDetail /\ adVariant = "stats" THEN "null" ELSE userStats
           /\ isLoading' = IF fetches THEN TRUE ELSE isLoading
           /\ fetchError' = IF fetches THEN "null" ELSE fetchError
           /\ isLoadingStats' = IF stats THEN TRUE ELSE isLoadingStats
           /\ adInflight' = IF fetches THEN adInflight (+) SetToBag({FetchRequest})
                            ELSE IF stats THEN adInflight (+) SetToBag({StatsRequest(t.uid)})
                            ELSE adInflight
           /\ adEvent' = Event("timer", "null", FALSE, 0)
    /\ UNCHANGED <<adFixed, db, notifications, users, actionLoading, showDeleteConfirm>>
    /\ reminderSent' = IF adVariant = "stats" /\ Head(adTimers).kind = "back"
                                                /\ Head(adTimers).view \in DetailViews
                       THEN FALSE ELSE reminderSent
    /\ UNCHANGED <<adResendVars, isSendingReminder, reminders>>
    /\ AdFrame

\* onClick={fetchUsers} of the error banner, up to await getDocs
AdRetryFetch ==
    /\ ErrorBannerRendered
    /\ BagCardinality(adInflight) < MaxInflight
    /\ isLoading' = TRUE
    /\ fetchError' = "null"
    /\ adInflight' = adInflight (+) SetToBag({FetchRequest})
    /\ adEvent' = Event("retry", "null", FALSE, 0)
    /\ UNCHANGED <<adFixed, db, notifications, users, actionLoading, selectedUser,
                   showDeleteConfirm, currentView, userStats, isLoadingStats, adTimers>>
    /\ UNCHANGED <<adResendVars, adReminderVars>>
    /\ AdFrame

\* fetchUsers after await getDocs: the snapshot becomes the list, or the
\* catch sets fetchError; finally setIsLoading(false).
AdFetchDone ==
    /\ \E req \in BagToSet(adInflight) :
         /\ req.kind = "fetch"
         /\ adInflight' = adInflight (-) SetToBag({req})
         /\ \E ok \in BOOLEAN :
              IF ok
              THEN /\ users' = db
                   /\ adEvent' = Event("fetched", "null", FALSE, 0)
                   /\ UNCHANGED fetchError
              ELSE /\ \E message \in ErrorMessages :
                        /\ fetchError' = FetchErrorText(message)
                        /\ adEvent' = [Event("fetchFailed", "null", FALSE, 0)
                                          EXCEPT !.message = message]
                   /\ UNCHANGED users
    /\ isLoading' = FALSE
    /\ UNCHANGED <<adFixed, db, notifications, actionLoading, selectedUser,
                   showDeleteConfirm, currentView, userStats, isLoadingStats, adTimers>>
    /\ UNCHANGED <<adResendVars, adReminderVars>>
    /\ AdFrame

\* first variant: onClick={() => openPendingUserDetail(user)} of a pending row
AdOpenPendingUserDetail ==
    /\ adVariant = "first"
    /\ ListsRendered
    /\ Len(adTimers) < MaxTimers
    /\ \E u \in PendingUsers :
         /\ selectedUser' = ListEntry(u)
         /\ adEvent' = Event("openPending", u, FALSE, 0)
    /\ adTimers' = Append(adTimers, Timer("nav", "pendingUserDetail", "null"))
    /\ UNCHANGED <<adFixed, db, notifications, users, isLoading, fetchError,
                   actionLoading, showDeleteConfirm, currentView, userStats,
                   isLoadingStats, adInflight>>
    /\ UNCHANGED <<adResendVars, adReminderVars>>
    /\ AdFrame

\* first variant: onClick={() => openApprovedUserDetail(user)} of an approved row
AdOpenApprovedUserDetail ==
    /\ adVariant = "first"
    /\ ListsRendered
    /\ Len(adTimers) < MaxTimers
    /\ \E u \in ApprovedUsers :
         /\ selectedUser' = ListEntry(u)
         /\ adEvent' = Event("openApproved", u, FALSE, 0)
    /\ showDeleteConfirm' = FALSE
    /\ adTimers' = Append(adTimers, Timer("nav", "approvedUserDetail", "null"))
    /\ UNCHANGED <<adFixed, db, notifications, users, isLoading, fetchError,
                   actionLoading, currentView, userStats, isLoadingStats, adInflight>>
    /\ UNCHANGED <<adResendVars, adReminderVars>>
    /\ AdFrame

\* stats variant: onClick={() => viewUserDetail(user)} of an approved row
AdViewUserDetail ==
    /\ adVariant = "stats"
    /\ ListsRendered
    /\ Len(adTimers) < MaxTimers
    /\ \E u \in ApprovedUsers :
         /\ selectedUser' = ListEntry(u)
         /\ adTimers' = Append(adTimers, Timer("detail", "userDetail", u))
         /\ adEvent' = Event("viewDetail", u, FALSE, 0)
    /\ userStats' = "null"
    /\ UNCHANGED <<adFixed, db, notifications, users, isLoading, fetchError,
                   actionLoading, showDeleteConfirm, currentView, isLoadingStats,
                   adInflight>>
    /\ reminderSent' = FALSE
    /\ UNCHANGED <<adResendVars, isSendingReminder, reminders>>
    /\ AdFrame

\* fetchUserStats after await getDocs(mapsRef): the catch shows zeros
AdStatsMapsDone ==
    /\ \E req \in BagToSet(adInflight) :
         /\ req.kind = "stats"
         /\ req.pc = "maps"
         /\ \E ok \in BOOLEAN :
              IF ok
              THEN /\ adInflight' = (adInflight (-) SetToBag({req}))
                                     (+) SetToBag({[req EXCEPT !.pc = "restaurants"]})
                   /\ adEvent' = Event("statsMaps", req.uid, FALSE, 0)
                   /\ UNCHANGED <<userStats, isLoadingStats>>
              ELSE /\ adInflight' = adInflight (-) SetToBag({req})
                   /\ userStats' = "zeros"
                   /\ isLoadingStats' = FALSE
                   /\ adEvent' = Event("statsFailed", req.uid, FALSE, 0)
    /\ UNCHANGED <<adFixed, db, notifications, users, isLoading, fetchError,
                   actionLoading, selectedUser, showDeleteConfirm, currentView, adTimers>>
    /\ UNCHANGED <<adResendVars, adReminderVars>>
    /\ AdFrame

\* fetchUserStats after await getDocs(restaurantsRef): setUserStats of the
\* counts of userId, or zeros from the catch; finally setIsLoadingStats(false)
AdStatsRestaurantsDone ==
    /\ \E req \in BagToSet(adInflight) :
         /\ req.kind = "stats"
         /\ req.pc = "restaurants"
         /\ adInflight' = adInflight (-) SetToBag({req})
         /\ \E ok \in BOOLEAN :
              IF ok
              THEN /\ userStats' = req.uid
                   /\ adEvent' = Event("statsLoaded", req.uid, FALSE, 0)
              ELSE /\ userStats' = "zeros"
                   /\ adEvent' = Event("statsFailed", req.uid, FALSE, 0)
    /\ isLoadingStats' = FALSE
    /\ UNCHANGED <<adFixed, db, notifications, users, isLoading, fetchError,
                   actionLoading, selectedUser, showDeleteConfirm, currentView, adTimers>>
    /\ UNCHANGED <<adResendVars, adReminderVars>>
    /\ AdFrame

\* setUsers(prev => prev.map(u => u.id === userId ? {...u, <approved fields>} : u))
ApproveInList(list, userId) ==
    [v \in DOMAIN list |-> IF v = userId THEN ApprovedFields(list[v]) ELSE list[v]]

\* setUsers(prev => prev.map(u => u.id === userId ? {...u, status: 'rejected'} : u))
RejectInList(list, userId) ==
    [v \in DOMAIN list |-> IF v = userId THEN RejectedFields(list[v]) ELSE list[v]]

\* setUsers(prev => prev.filter(u => u.id !== userId))
RemoveFromList(list, userId) == [v \in DOMAIN list \ {userId} |-> list[v]]

\* first variant: if (selectedUser?.id === userId)
\*                  setSelectedUser(prev => prev ? {...prev, <fields>} : null)
\* The test reads the closure's selectedUser, the update the current one.
SelectedAfterApprove(req) ==
    IF adVariant = "first" /\ req.selId = req.uid /\ selectedUser # NoUser
    THEN ApprovedFields(selectedUser)
    ELSE selectedUser

SelectedAfterReject(req) ==
    IF adVariant = "first" /\ req.selId = req.uid /\ selectedUser # NoUser
    THEN RejectedFields(selectedUser)
    ELSE selectedUser

\* Faulty variant of the finally block below: the flag is left as it is.
ActionLoadingKept == actionLoading

\* finally { setActionLoading(null); } of handleApproveUser, handleRejectUser
\* and handleDeleteUser
ActionLoadingAfterFinally == "null"

\* catch (error) { console.error(...); alert('Failed to ...'); } of the three
\* handlers: the last step ended in a catch block.
AlertShown ==
    adEvent.op \in {"approveUpdateFailed", "approveNotifyFailed",
                    "rejectFailed", "deleteFailed", "reminderFailed"}

\* handleApproveUser(userId) up to await updateDoc
AdApproveClick ==
    /\ BagCardinality(adInflight) < MaxInflight
    /\ \E u \in UserIds :
         /\ ApproveRejectEnabled(u)
         /\ notifications[u] < MaxNotifs
         /\ actionLoading' = u
         /\ adInflight' = adInflight (+) SetToBag({Request("approve", u, "update")})
         /\ adEvent' = Event("approveClick", u, FALSE, 0)
    /\ UNCHANGED <<adFixed, db, notifications, users, isLoading, fetchError,
                   selectedUser, showDeleteConfirm, currentView, userStats,
                   isLoadingStats, adTimers>>
    /\ UNCHANGED <<adResendVars, adReminderVars>>
    /\ AdFrame

\* handleApproveUser after await updateDoc: the write took effect and addDoc
\* is awaited, or updateDoc rejected (always so for a document that is gone):
\* catch alerts, finally setActionLoading(null).
AdApproveUpdateDone ==
    /\ \E req \in BagToSet(adInflight) :
         /\ req.kind = "approve"
         /\ req.pc = "update"
         /\ \/ /\ req.uid \in DOMAIN db
               /\ db' = [db EXCEPT ![req.uid] = ApprovedFields(@)]
               /\ adInflight' = (adInflight (-) SetToBag({req}))
                                  (+) SetToBag({[req EXCEPT !.pc = "notify",
                                                            !.updated = TRUE,
                                                            !.prior = db[req.uid].status]})
               /\ adEvent' = [Event("approveUpdated", req.uid, TRUE, 0)
                                EXCEPT !.prior = db[req.uid].status]
               /\ UNCHANGED actionLoading
            \/ /\ adInflight' = adInflight (-) SetToBag({req})
               /\ actionLoading' = ActionLoadingAfterFinally
               /\ adEvent' = Event("approveUpdateFailed", req.uid, FALSE, 0)
               /\ UNCHANGED db
    /\ UNCHANGED <<adFixed, notifications, users, isLoading, fetchError,
                   selectedUser, showDeleteConfirm, currentView, userStats,
                   isLoadingStats, adTimers>>
    /\ UNCHANGED <<adResendVars, adReminderVars>>
    /\ AdFrame

\* handleApproveUser after await addDoc: the notification document exists and
\* the local list (and selectedUser) are updated, or addDoc rejected: catch
\* alerts; finally setActionLoading(null).
AdApproveNotifyDone ==
    /\ \E req \in BagToSet(adInflight) :
         /\ req.kind = "approve"
         /\ req.pc = "notify"
         /\ adInflight' = adInflight (-) SetToBag({req})
         /\ \/ /\ notifications' = AddDoc(notifications, WelcomeRecipient(req.uid))
               /\ users' = ApproveInList(users, req.uid)
               /\ selectedUser' = SelectedAfterApprove(req)
               /\ adEvent' = [Event("approveDone", req.uid, req.updated, req.notifs + 1)
                                EXCEPT !.prior = req.prior]
            \/ /\ adEvent' = [Event("approveNotifyFailed", req.uid, req.updated, req.notifs)
                                EXCEPT !.prior = req.prior]
               /\ UNCHANGED <<notifications, users, selectedUser>>
    /\ actionLoading' = ActionLoadingAfterFinally
    /\ UNCHANGED <<adFixed, db, isLoading, fetchError, showDeleteConfirm,
                   currentView, userStats, isLoadingStats, adTimers>>
    /\ UNCHANGED <<adResendVars, adReminderVars>>
    /\ AdFrame

\* handleRejectUser(userId): window.confirm, then up to await updateDoc
AdRejectClick ==
    /\ BagCardinality(adInflight) < MaxInflight
    /\ \E u \in UserIds, confirmed \in BOOLEAN :
         /\ ApproveRejectEnabled(u)
         /\ adEvent' = Event(IF confirmed THEN "rejectConfirm" ELSE "rejectCancel",
                             u, FALSE, 0)
         /\ IF ConfirmGate(confirmed)
            THEN /\ actionLoading' = u
                 /\ adInflight' = adInflight (+) SetToBag({Request("reject", u, "update")})
            ELSE UNCHANGED <<actionLoading, adInflight>>
    /\ UNCHANGED <<adFixed, db, notifications, users, isLoading, fetchError,
                   selectedUser, showDeleteConfirm, currentView, userStats,
                   isLoadingStats, adTimers>>
    /\ UNCHANGED <<adResendVars, adReminderVars>>
    /\ AdFrame

\* handleRejectUser after await updateDoc
AdRejectDone ==
    /\ \E req \in BagToSet(adInflight) :
         /\ req.kind = "reject"
         /\ adInflight' = adInflight (-) SetToBag({req})
         /\ \/ /\ req.uid \in DOMAIN db
               /\ db' = [db EXCEPT ![req.uid] = RejectedFields(@)]
               /\ users' = RejectInList(users, req.uid)
               /\ selectedUser' = SelectedAfterReject(req)
               /\ adEvent' = Event("rejectDone", req.uid, TRUE, 0)
            \/ /\ adEvent' = Event("rejectFailed", req.uid, FALSE, 0)
               /\ UNCHANGED <<db, users, selectedUser>>
    /\ actionLoading' = ActionLoadingAfterFinally
    /\ UNCHANGED <<adFixed, notifications, isLoading, fetchError, showDeleteConfirm,
                   currentView, userStats, isLoadingStats, adTimers>>
    /\ UNCHANGED <<adResendVars, adReminderVars>>
    /\ AdFrame

\* first variant: onClick={() => setShowDeleteConfirm(true)} (Delete User)
AdDeleteUserPress ==
    /\ \E u \in UserIds :
         /\ DeleteSectionRendered(u)
         /\ ~showDeleteConfirm
         /\ adEvent' = Event("deletePress", u, FALSE, 0)
    /\ showDeleteConfirm' = TRUE
    /\ UNCHANGED <<adFixed, db, notifications, users, isLoading, fetchError,
                   actionLoading, selectedUser, currentView, userStats,
                   isLoadingStats, adInflight, adTimers>>
    /\ UNCHANGED <<adResendVars, adReminderVars>>
    /\ AdFrame

\* first variant: onClick={() => setShowDeleteConfirm(false)} (Cancel)
AdDeleteCancelPress ==
    /\ \E u \in UserIds :
         /\ DeleteSectionRendered(u)
         /\ showDeleteConfirm
         /\ adEvent' = Event("deleteCancel", u, FALSE, 0)
    /\ showDeleteConfirm' = FALSE
    /\ UNCHANGED <<adFixed, db, notifications, users, isLoading, fetchError,
                   actionLoading, selectedUser, currentView, userStats,
                   isLoadingStats, adInflight, adTimers>>
    /\ UNCHANGED <<adResendVars, adReminderVars>>
    /\ AdFrame

\* first variant: onClick={() => handleDeleteUser(selectedUser.id)} (Confirm
\* Delete), up to await deleteDoc
AdConfirmDeletePress ==
    /\ BagCardinality(adInflight) < MaxInflight
    /\ \E u \in UserIds :
         /\ ConfirmDeleteEnabled(u)
         /\ actionLoading' = u
         /\ adInflight' = adInflight (+) SetToBag({Request("delete", u, "delete")})
         /\ adEvent' = Event("deleteConfirm", u, FALSE, 0)
    /\ UNCHANGED <<adFixed, db, notifications, users, isLoading, fetchError,
                   selectedUser, showDeleteConfirm, currentView, userStats,
                   isLoadingStats, adTimers>>
    /\ UNCHANGED <<adResendVars, adReminderVars>>
    /\ AdFrame

\* stats variant: the trash button of an approved row:
\* handleDeleteUser(user.id, user.email): window.confirm, then up to await deleteDoc
AdRowDeleteClick ==
    /\ BagCardinality(adInflight) < MaxInflight
    /\ \E u \in UserIds, confirmed \in BOOLEAN :
         /\ RowDeleteEnabled(u)
         /\ adEvent' = Event(IF confirmed THEN "deleteConfirm" ELSE "deleteCancel",
                             u, FALSE, 0)
         /\ IF ConfirmGate(confirmed)
            THEN /\ actionLoading' = u
                 /\ adInflight' = adInflight (+) SetToBag({Request("delete", u, "delete")})
            ELSE UNCHANGED <<actionLoading, adInflight>>
    /\ UNCHANGED <<adFixed, db, notifications, users, isLoading, fetchError,
                   selectedUser, showDeleteConfirm, currentView, userStats,
                   isLoadingStats, adTimers>>
    /\ UNCHANGED <<adResendVars, adReminderVars>>
    /\ AdFrame

\* stats variant: the Delete User button of the userDetail view:
\* handleDeleteUser(selectedUser.id, selectedUser.email); goBack();
AdDetailDeleteClick ==
    /\ BagCardinality(adInflight) < MaxInflight
    /\ Len(adTimers) < MaxTimers
    /\ \E u \in UserIds, confirmed \in BOOLEAN :
         /\ DetailDeleteEnabled(u)
         /\ adEvent' = Event(IF confirmed THEN "deleteConfirm" ELSE "deleteCancel",
                             u, FALSE, 0)
         /\ IF ConfirmGate(confirmed)
            THEN /\ actionLoading' = u
                 /\ adInflight' = adInflight (+) SetToBag({Request("delete", u, "delete")})
            ELSE UNCHANGED <<actionLoading, adInflight>>
    /\ adTimers' = Append(adTimers, Timer("back", currentView, "null"))
    /\ UNCHANGED <<adFixed, db, notifications, users, isLoading, fetchError,
                   selectedUser, showDeleteConfirm, currentView, userStats,
                   isLoadingStats>>
    /\ UNCHANGED <<adResendVars, adReminderVars>>
    /\ AdFrame

\* handleDeleteUser after await deleteDoc. On success the first variant also
\* closes the prompt, clears selectedUser and calls goBack() (which clears
\* resendSuccess and whose timer holds the currentView of the render that
\* called handleDeleteUser).
AdDeleteDone ==
    /\ \E req \in BagToSet(adInflight) :
         /\ req.kind = "delete"
         /\ adInflight' = adInflight (-) SetToBag({req})
         /\ \/ /\ adVariant = "first" => Len(adTimers) < MaxTimers
               /\ db' = [v \in DOMAIN db \ {req.uid} |-> db[v]]
               /\ users' = RemoveFromList(users, req.uid)
               /\ IF adVariant = "first"
                  THEN /\ showDeleteConfirm' = FALSE
                       /\ selectedUser' = NoUser
                       /\ resendSuccess' = FALSE
                       /\ adTimers' = Append(adTimers, Timer("back", req.view, "null"))
                  ELSE UNCHANGED <<showDeleteConfirm, selectedUser, resendSuccess,
                                   adTimers>>
               /\ adEvent' = Event("deleteDone", req.uid, TRUE, 0)
            \/ /\ adEvent' = Event("deleteFailed", req.uid, FALSE, 0)
               /\ UNCHANGED <<db, users, showDeleteConfirm, selectedUser,
                              resendSuccess, adTimers>>
    /\ actionLoading' = ActionLoadingAfterFinally
    /\ UNCHANGED <<adFixed, notifications, isLoading, fetchError, currentView,
                   userStats, isLoadingStats>>
    /\ UNCHANGED <<resendingEmail, adSuccessTimers, adReminderVars>>
    /\ AdFrame

\* How many handlers of one kind are suspended at an await
InflightCount(kind) ==
    BagCardinality([r \in {x \in BagToSet(adInflight) : x.kind = kind}
                      |-> adInflight[r]])

\* finally { setResendingEmail(false); } of handleResendVerification
ResendingAfterFinally == FALSE

\* Faulty variant of the finally block below: the flag is cleared on the
\* success path only.
SendingReminderLeftOnFailure == adEvent'.op # "reminderDone"

\* finally { setIsSendingReminder(false); } of sendVerificationReminder
SendingReminderAfterFinally == FALSE

\* first variant, pendingUserDetail: the Resend button,
\* {!selectedUser.emailVerified && ...}, disabled={resendingEmail || resendSuccess}
ResendEnabled(u) ==
    /\ adVariant = "first"
    /\ currentView = "pendingUserDetail"
    /\ selectedUser # NoUser
    /\ selectedUser.id = u
    /\ ~adEmailVerified[u]
    /\ ~(resendingEmail \/ resendSuccess)

\* stats variant, userDetail: the Send Verification Reminder button,
\* {!selectedUser.emailVerified && (reminderSent ? sent : button)},
\* disabled={isSendingReminder}
ReminderEnabled(u) ==
    /\ adVariant = "stats"
    /\ currentView = "userDetail"
    /\ selectedUser # NoUser
    /\ selectedUser.id = u
    /\ ~adEmailVerified[u]
    /\ ~reminderSent
    /\ ~isSendingReminder

\* handleResendVerification(userId, email) up to its await (a promise that a
\* one-second timer resolves)
AdResendClick ==
    /\ BagCardinality(adInflight) < MaxInflight
    /\ adSuccessTimers + InflightCount("resend") < MaxTimers
    /\ \E u \in UserIds :
         /\ ResendEnabled(u)
         /\ adInflight' = adInflight (+) SetToBag({Request("resend", u, "wait")})
         /\ adEvent' = Event("resendClick", u, FALSE, 0)
    /\ resendingEmail' = TRUE
    /\ resendSuccess' = FALSE
    /\ UNCHANGED <<adFixed, db, notifications, users, isLoading, fetchError,
                   actionLoading, selectedUser, showDeleteConfirm, currentView,
                   userStats, isLoadingStats, adTimers, adSuccessTimers,
                   adReminderVars>>
    /\ AdFrame

\* handleResendVerification after its await (the promise cannot reject):
\* setResendSuccess(true), a 3 s timer to clear it, finally
\* setResendingEmail(false)
AdResendDone ==
    /\ \E req \in BagToSet(adInflight) :
         /\ req.kind = "resend"
         /\ adInflight' = adInflight (-) SetToBag({req})
         /\ adEvent' = Event("resendDone", req.uid, FALSE, 0)
    /\ resendSuccess' = TRUE
    /\ adSuccessTimers' = adSuccessTimers + 1
    /\ resendingEmail' = ResendingAfterFinally
    /\ UNCHANGED <<adFixed, db, notifications, users, isLoading, fetchError,
                   actionLoading, selectedUser, showDeleteConfirm, currentView,
                   userStats, isLoadingStats, adTimers, adReminderVars>>
    /\ AdFrame

\* setTimeout(() => setResendSuccess(false), 3000) fires
AdSuccessTimerFires ==
    /\ adSuccessTimers > 0
    /\ adSuccessTimers' = adSuccessTimers - 1
    /\ resendSuccess' = FALSE
    /\ adEvent' = Event("successTimer", "null", FALSE, 0)
    /\ UNCHANGED <<adFixed, db, notifications, users, isLoading, fetchError,
                   actionLoading, selectedUser, showDeleteConfirm, currentView,
                   userStats, isLoadingStats, adInflight, adTimers,
                   resendingEmail, adReminderVars>>
    /\ AdFrame

\* sendVerificationReminder(userId, userEmail) up to await addDoc
AdReminderClick ==
    /\ BagCardinality(adInflight) < MaxInflight
    /\ \E u \in UserIds :
         /\ ReminderEnabled(u)
         /\ reminders[u] < MaxReminders
         /\ adInflight' = adInflight (+) SetToBag({Request("reminder", u, "addDoc")})
         /\ adEvent' = Event("reminderClick", u, FALSE, 0)
    /\ isSendingReminder' = TRUE
    /\ UNCHANGED <<adFixed, db, notifications, users, isLoading, fetchError,
                   actionLoading, selectedUser, showDeleteConfirm, currentView,
                   userStats, isLoadingStats, adTimers, adResendVars,
                   reminderSent, reminders>>
    /\ AdFrame

\* sendVerificationReminder after await addDoc: setReminderSent(true), or the
\* catch alerts; finally setIsSendingReminder(false)
AdReminderDone ==
    /\ \E req \in BagToSet(adInflight) :
         /\ req.kind = "reminder"
         /\ adInflight' = adInflight (-) SetToBag({req})
         /\ \/ /\ reminders' = AddDoc(reminders, req.uid)
               /\ reminderSent' = TRUE
               /\ adEvent' = Event("reminderDone", req.uid, FALSE, 0)
            \/ /\ adEvent' = Event("reminderFailed", req.uid, FALSE, 0)
               /\ UNCHANGED <<reminders, reminderSent>>
    /\ isSendingReminder' = SendingReminderAfterFinally
    /\ UNCHANGED <<adFixed, db, notifications, users, isLoading, fetchError,
                   actionLoading, selectedUser, showDeleteConfirm, currentView,
                   userStats, isLoadingStats, adTimers, adResendVars>>
    /\ AdFrame

AdNext ==
    \/ AdNavigateToUsers
    \/ AdGoBack
    \/ AdTimerFires
    \/ AdRetryFetch
    \/ AdFetchDone
    \/ AdOpenPendingUserDetail
    \/ AdOpenApprovedUserDetail
    \/ AdViewUserDetail
    \/ AdStatsMapsDone
    \/ AdStatsRestaurantsDone
    \/ AdApproveClick
    \/ AdApproveUpdateDone
    \/ AdApproveNotifyDone
    \/ AdRejectClick
    \/ AdRejectDone
    \/ AdDeleteUserPress
    \/ AdDeleteCancelPress
    \/ AdConfirmDeletePress
    \/ AdRowDeleteClick
    \/ AdDetailDeleteClick
    \/ AdDeleteDone
    \/ AdResendClick
    \/ AdResendDone
    \/ AdSuccessTimerFires
    \/ AdReminderClick
    \/ AdReminderDone

\* ========================================================================
\* Tutorial overlay (src/unnamed/part_001)
\* ========================================================================

\* const steps: StepConfig[] = [...]; the ids in order
Steps ==
    <<"welcome", "map_overview", "search_bar", "filter_button", "side_menu",
      "map_pill", "map_controls", "add_button", "shared_maps", "complete">>

\* steps.length - 1
LastStepIndex == Len(Steps) - 1

\* steps[i].id, i counted from 0 as in the code
StepAt(i) == Steps[i + 1]

\* const currentStepIndex = steps.findIndex(s => s.id === currentStep)
StepIndexOf(step) == CHOOSE i \in 0..LastStepIndex : StepAt(i) = step

\* requiresClick: true
RequiresClick(step) ==
    step \in {"search_bar", "filter_button", "side_menu", "map_pill"}

\* the steps that have a targetSelector
HasTargetSelector(step) ==
    step \in {"search_bar", "filter_button", "side_menu", "map_pill",
              "map_controls", "add_button"}

\* renderStepContent: the cards with a Start or Next button (onClick={goToNextStep})
HasNextButton(step) ==
    step \in {"welcome", "map_overview", "map_controls", "add_button", "shared_maps"}

\* setTimeout delays, in milliseconds
StepDelayMs == 200
ClickDelayMs == 400
CloseDelayMs == 200

\* Time advances in steps of TickMs; clicks and timers happen at its multiples.
TickMs == 100

\* At most this many timers are pending at once.
MaxTtTimers == 2

\* highlightRect === null
NoRect == [top |-> 0, left |-> 0, width |-> -1, height |-> -1]

Rect(top, left, width, height) ==
    [top |-> top, left |-> left, width |-> width, height |-> height]

Viewport(width, height) == [width |-> width, height |-> height]

\* The one element position and window size used while stepping through
\* the tutorial
TutorialRect == Rect(12, 60, 200, 40)
TutorialViewport == Viewport(1024, 768)

\* What querySelector + getBoundingClientRect can return at a step: nothing
\* without a selector; otherwise the element may be in the document or not
TutorialRects(step) ==
    IF HasTargetSelector(step) THEN {NoRect, TutorialRect} ELSE {NoRect}

\* Element positions and window sizes for the card placement
CardRects ==
    {Rect(top, left, 40 + extra, height) :
        top \in {-100, 0, 120, 364, 500, 800},
        left \in {0, 500, 1000},
        extra \in {0, 1},
        height \in {40, 41, 600}}

Viewports ==
    {Viewport(width, height) : width \in {320, 351, 1024}, height \in {300, 768}}

\* A pending setTimeout callback. idx is the currentStepIndex its closure
\* captured, origin the user action that led to it, due the time left.
TtTimer(kind, idx, origin, due) ==
    [kind |-> kind, idx |-> idx, origin |-> origin, due |-> due]

TtEvent(op, idx, origin, forwarded) ==
    [op |-> op, idx |-> idx, origin |-> origin, forwarded |-> forwarded]

\* The component is mounted with isActive false: the isActive effect has
\* run its else branch.
TtIdle ==
    /\ isActive = FALSE
    /\ currentStep = "welcome"
    /\ isTransitioning = FALSE
    /\ isVisible = FALSE
    /\ highlightRect = NoRect
    /\ domRect = NoRect
    /\ viewport = TutorialViewport
    /\ ttTimers = <<>>
    /\ ttRafPending = FALSE
    /\ ttEvent = TtEvent("init", 0, "-", 0)

TtInit == TtIdle

\* The pending timers that are due, by position
DueTimers == {i \in 1..Len(ttTimers) : ttTimers[i].due = 0}

\* Timers fire in the order of their deadlines, and in the order they were
\* set when the deadlines are equal
NextDue == CHOOSE i \in DueTimers : \A j \in DueTimers : i <= j

RemoveAt(seq, i) == SubSeq(seq, 1, i - 1) \o SubSeq(seq, i + 1, Len(seq))

\* The highlight effect (deps currentStep, isActive, currentConfig) after a
\* render with a new step: it returns early when !isActive, else
\* updateHighlight() reads the element of the new step's selector
HighlightEffect(step, rects) ==
    /\ domRect' \in rects
    /\ highlightRect' = IF isActive' THEN domRect' ELSE highlightRect

\* The parent sets isActive (TutorialButton's onClick): the isActive effect
\* asks for an animation frame, the highlight effect runs.
TtOpen ==
    /\ ~isActive
    /\ isActive' = TRUE
    /\ ttRafPending' = TRUE
    /\ highlightRect' = domRect
    /\ ttEvent' = TtEvent("open", StepIndexOf(currentStep), "-", 0)
    /\ UNCHANGED <<currentStep, isTransitioning, isVisible, domRect, viewport,
                   ttTimers>>
    /\ TtFrame

\* requestAnimationFrame(() => { setIsVisible(true); })
TtAnimationFrame ==
    /\ ttRafPending
    /\ ttRafPending' = FALSE
    /\ isVisible' = TRUE
    /\ ttEvent' = TtEvent("raf", StepIndexOf(currentStep), "-", 0)
    /\ UNCHANGED <<isActive, currentStep, isTransitioning, highlightRect,
                   domRect, viewport, ttTimers>>
    /\ TtFrame

\* goToNextStep of the render whose currentStepIndex is idx, up to its
\* setTimeout; timers is the list the new timer is appended to
GoToNextStep(idx, origin, timers) ==
    IF idx < LastStepIndex
    THEN /\ isTransitioning' = TRUE
         /\ ttTimers' = Append(timers,
                               TtTimer("setCurrentStep", idx, origin, StepDelayMs))
    ELSE /\ ttTimers' = timers
         /\ UNCHANGED isTransitioning

\* The Start or Next button of the card: onClick={goToNextStep}
TtPressNext ==
    /\ isActive
    /\ HasNextButton(currentStep)
    /\ Len(ttTimers) < MaxTtTimers
    /\ GoToNextStep(StepIndexOf(currentStep), "button", ttTimers)
    /\ ttEvent' = TtEvent("press", StepIndexOf(currentStep), "button", 0)
    /\ UNCHANGED <<isActive, currentStep, isVisible, highlightRect, domRect,
                   viewport, ttRafPending>>
    /\ TtFrame

\* A click on the cutout, rendered when highlightRect is set, with
\* onClick={currentConfig?.requiresClick ? handleHighlightClick : undefined}.
\* handleHighlightClick: element.click() when the element is found, then
\* setTimeout(goToNextStep, 400).
TtHighlightClick ==
    /\ isActive
    /\ highlightRect # NoRect
    /\ RequiresClick(currentStep)
    /\ Len(ttTimers) < MaxTtTimers
    /\ ttTimers' = Append(ttTimers,
                          TtTimer("goToNextStep", StepIndexOf(currentStep),
                                  "highlight", ClickDelayMs))
    /\ ttEvent' = TtEvent("highlightClick", StepIndexOf(currentStep), "highlight",
                          IF domRect # NoRect THEN 1 ELSE 0)
    /\ UNCHANGED <<isActive, currentStep, isTransitioning, isVisible,
                   highlightRect, domRect, viewport, ttRafPending>>
    /\ TtFrame

\* handleSkip (the Skip button, {currentStep !== 'complete' && ...})
TtSkip ==
    /\ isActive
    /\ currentStep # "complete"
    /\ Len(ttTimers) < MaxTtTimers
    /\ isVisible' = FALSE
    /\ ttTimers' = Append(ttTimers, TtTimer("onClose", 0, "skip", CloseDelayMs))
    /\ ttEvent' = TtEvent("skip", StepIndexOf(currentStep), "skip", 0)
    /\ UNCHANGED <<isActive, currentStep, isTransitioning, highlightRect,
                   domRect, viewport, ttRafPending>>
    /\ TtFrame

\* handleComplete (the Finish button of the 'complete' card)
TtFinish ==
    /\ isActive
    /\ currentStep = "complete"
    /\ Len(ttTimers) < MaxTtTimers
    /\ isVisible' = FALSE
    /\ ttTimers' = Append(ttTimers, TtTimer("onClose", 0, "finish", CloseDelayMs))
    /\ ttEvent' = TtEvent("finish", StepIndexOf(currentStep), "finish", 0)
    /\ UNCHANGED <<isActive, currentStep, isTransitioning, highlightRect,
                   domRect, viewport, ttRafPending>>
    /\ TtFrame

\* setTimeout(goToNextStep, 400) fires: the goToNextStep of the render in
\* which the cutout was clicked
TtGoToNextStepFires ==
    /\ DueTimers # {}
    /\ LET t == ttTimers[NextDue] IN
         /\ t.kind = "goToNextStep"
         /\ GoToNextStep(t.idx, t.origin, RemoveAt(ttTimers, NextDue))
         /\ ttEvent' = TtEvent("goToNextStep", t.idx, t.origin, 0)
    /\ UNCHANGED <<isActive, currentStep, isVisible, highlightRect, domRect,
                   viewport, ttRafPending>>
    /\ TtFrame

\* The 200 ms callback of goToNextStep fires:
\* setCurrentStep(steps[currentStepIndex + 1].id); setIsTransitioning(false)
\* with the currentStepIndex its closure captured; a new step re-renders
\* and runs the highlight effect
TtSetCurrentStepFires ==
    /\ DueTimers # {}
    /\ LET t == ttTimers[NextDue] IN
         /\ t.kind = "setCurrentStep"
         /\ currentStep' = StepAt(t.idx + 1)
         /\ ttEvent' = TtEvent("setCurrentStep", t.idx, t.origin, 0)
    /\ isTransitioning' = FALSE
    /\ ttTimers' = RemoveAt(ttTimers, NextDue)
    /\ UNCHANGED <<isActive, isVisible, viewport, ttRafPending>>
    /\ IF currentStep' # currentStep
       THEN HighlightEffect(currentStep', TutorialRects(currentStep'))
       ELSE UNCHANGED <<highlightRect, domRect>>
    /\ TtFrame

\* setTimeout(onClose, 200) fires: the parent clears isActive, and the
\* isActive effect runs setIsVisible(false); setCurrentStep('welcome')
TtOnCloseFires ==
    /\ DueTimers # {}
    /\ LET t == ttTimers[NextDue] IN
         /\ t.kind = "onClose"
         /\ ttEvent' = TtEvent("onClose", StepIndexOf(currentStep), t.origin, 0)
    /\ ttTimers' = RemoveAt(ttTimers, NextDue)
    /\ isActive' = FALSE
    /\ IF isActive
       THEN /\ isVisible' = FALSE
            /\ currentStep' = "welcome"
            /\ HighlightEffect("welcome", TutorialRects("welcome"))
       ELSE UNCHANGED <<isVisible, currentStep, highlightRect, domRect>>
    /\ UNCHANGED <<isTransitioning, viewport, ttRafPending>>
    /\ TtFrame

\* A scroll event: the listener the highlight effect registered while
\* isActive runs updateHighlight()
ScrollTo(rects) ==
    /\ isActive
    /\ HasTargetSelector(currentStep)
    /\ domRect' \in rects \ {domRect}
    /\ highlightRect' = domRect'
    /\ ttEvent' = TtEvent("scroll", StepIndexOf(currentStep), "-", 0)
    /\ UNCHANGED <<isActive, currentStep, isTransitioning, isVisible, viewport,
                   ttTimers, ttRafPending>>
    /\ TtFrame

\* A resize event: the window has a new size, updateHighlight() runs
ResizeTo(viewports, rects) ==
    /\ isActive
    /\ HasTargetSelector(currentStep)
    /\ viewport' \in viewports \ {viewport}
    /\ domRect' \in rects
    /\ highlightRect' = domRect'
    /\ ttEvent' = TtEvent("resize", StepIndexOf(currentStep), "-", 0)
    /\ UNCHANGED <<isActive, currentStep, isTransitioning, isVisible, ttTimers,
                   ttRafPending>>
    /\ TtFrame

TtScroll == ScrollTo(TutorialRects(currentStep))

\* TickMs pass and no timer is due
TtTick ==
    /\ ttTimers # <<>>
    /\ DueTimers = {}
    /\ ttTimers' = [i \in 1..Len(ttTimers) |->
                       [ttTimers[i] EXCEPT !.due = @ - TickMs]]
    /\ ttEvent' = TtEvent("tick", StepIndexOf(currentStep), "-", 0)
    /\ UNCHANGED <<isActive, currentStep, isTransitioning, isVisible,
                   highlightRect, domRect, viewport, ttRafPending>>
    /\ TtFrame

TtNext ==
    \/ TtOpen
    \/ TtAnimationFrame
    \/ TtPressNext
    \/ TtHighlightClick
    \/ TtSkip
    \/ TtFinish
    \/ TtGoToNextStepFires
    \/ TtSetCurrentStepFires
    \/ TtOnCloseFires
    \/ TtScroll
    \/ TtTick

\* ------------------------------------------------------------------------
\* Tutorial: getCardPosition
\* ------------------------------------------------------------------------

CardHeight == 280
MaxCardWidth == 320
CardPadding == 16

Min(a, b) == IF a < b THEN a ELSE b
Max(a, b) == IF a > b THEN a ELSE b

\* const cardWidth = Math.min(320, viewportWidth - 32)
CardWidth(vp) == Min(MaxCardWidth, vp.width - 32)

\* elementCenterY < viewportHeight / 2, with
\* elementCenterY = highlightRect.top + highlightRect.height / 2
CenterInUpperHalf(rect, vp) == 2 * rect.top + rect.height < vp.height

\* highlightRect.bottom
Bottom(rect) == rect.top + rect.height

\* the returned top, in px
CardTop(rect, vp) ==
    IF CenterInUpperHalf(rect, vp)
    THEN Min(Bottom(rect) + CardPadding, vp.height - CardHeight - CardPadding)
    ELSE Max(rect.top - CardHeight - CardPadding, CardPadding)

\* the returned left, in half px (elementCenterX - cardWidth / 2 may fall
\* on a half):
\* Math.max(padding, Math.min(elementCenterX - cardWidth / 2,
\*                            viewportWidth - cardWidth - padding))
CardLeft2(rect, vp) ==
    Max(2 * CardPadding,
        Min(2 * rect.left + rect.width - CardWidth(vp),
            2 * (vp.width - CardWidth(vp) - CardPadding)))

\* getCardPosition(): centred without a highlight, else top and left
GetCardPosition(rect, vp) ==
    IF rect = NoRect
    THEN [centered |-> TRUE, top |-> 0, left2 |-> 0]
    ELSE [centered |-> FALSE, top |-> CardTop(rect, vp), left2 |-> CardLeft2(rect, vp)]

\* const cardPosition = getCardPosition() of the current render
CardPosition == GetCardPosition(highlightRect, viewport)

\* The tutorial stands at a step with a target while the page is scrolled
\* and the window resized.
CardInit ==
    /\ isActive = TRUE
    /\ currentStep = "map_controls"
    /\ isTransitioning = FALSE
    /\ isVisible = TRUE
    /\ domRect = TutorialRect
    /\ highlightRect = domRect
    /\ viewport = TutorialViewport
    /\ ttTimers = <<>>
    /\ ttRafPending = FALSE
    /\ ttEvent = TtEvent("init", StepIndexOf("map_controls"), "-", 0)

CpScroll == ScrollTo(CardRects)

CpResize == ResizeTo(Viewports, CardRects)

CpNext ==
    \/ CpScroll
    \/ CpResize

\* ========================================================================
\* HeaderBar: the notification bell and panel
\* ========================================================================

\* setTimeout(..., 300) of handleNotifToggle and closeNotifications
NotifCloseDelayMs == 300

\* At most this many close timers are pending at once.
MaxNotifTimers == 2

\* useState(false) twice; showNotifications = false by default
NfInit ==
    /\ showNotifications = FALSE
    /\ isNotifOpen = FALSE
    /\ isNotifClosing = FALSE
    /\ nfTimers = <<>>
    /\ nfCloseIssued = FALSE
    /\ nfOp = "init"

\* {showNotifications && (<button onClick={... handleNotifToggle() }>)}
BellRendered == showNotifications

\* {showNotifications && onMarkAsRead && onMarkAllAsRead && (<NotificationPanel/>)},
\* NotificationPanel: if (!isOpen && !isClosing) return null; the backdrop
\* with onClick={onClose}
BackdropRendered == showNotifications /\ (isNotifOpen \/ isNotifClosing)

\* setTimeout(() => { setIsNotifOpen(false); setIsNotifClosing(false); }, 300):
\* one more timer each time, nothing is cleared
ScheduleClose(timers) == Append(timers, NotifCloseDelayMs)

\* The parent shows or hides the bell (prop showNotifications).
NfPropsChange ==
    /\ showNotifications' = ~showNotifications
    /\ nfOp' = "props"
    /\ UNCHANGED <<isNotifOpen, isNotifClosing, nfTimers, nfCloseIssued>>
    /\ NfFrame

\* handleNotifToggle (a click on the bell)
NfNotifToggle ==
    /\ BellRendered
    /\ IF isNotifOpen
       THEN /\ Len(nfTimers) < MaxNotifTimers
            /\ isNotifClosing' = TRUE
            /\ nfTimers' = ScheduleClose(nfTimers)
            /\ nfCloseIssued' = TRUE
            /\ nfOp' = "toggleClose"
            /\ UNCHANGED isNotifOpen
       ELSE /\ isNotifOpen' = TRUE
            /\ nfCloseIssued' = FALSE
            /\ nfOp' = "toggleOpen"
            /\ UNCHANGED <<isNotifClosing, nfTimers>>
    /\ UNCHANGED showNotifications
    /\ NfFrame

\* closeNotifications (a click on the panel's backdrop)
NfCloseNotifications ==
    /\ BackdropRendered
    /\ Len(nfTimers) < MaxNotifTimers
    /\ isNotifClosing' = TRUE
    /\ nfTimers' = ScheduleClose(nfTimers)
    /\ nfCloseIssued' = TRUE
    /\ nfOp' = "backdropClose"
    /\ UNCHANGED <<showNotifications, isNotifOpen>>
    /\ NfFrame

\* The oldest close timer is due and fires.
NfCloseTimerFires ==
    /\ nfTimers # <<>>
    /\ Head(nfTimers) = 0
    /\ isNotifOpen' = FALSE
    /\ isNotifClosing' = FALSE
    /\ nfTimers' = Tail(nfTimers)
    /\ nfOp' = "closeTimer"
    /\ UNCHANGED <<showNotifications, nfCloseIssued>>
    /\ NfFrame

\* TickMs pass and no close timer is due
NfTick ==
    /\ nfTimers # <<>>
    /\ Head(nfTimers) > 0
    /\ nfTimers' = [i \in 1..Len(nfTimers) |-> nfTimers[i] - TickMs]
    /\ nfOp' = "tick"
    /\ UNCHANGED <<showNotifications, isNotifOpen, isNotifClosing, nfCloseIssued>>
    /\ NfFrame

NfNext ==
    \/ NfPropsChange
    \/ NfNotifToggle
    \/ NfCloseNotifications
    \/ NfCloseTimerFires
    \/ NfTick

\* ========================================================================
\* Specifications
\* ========================================================================

\* The modal as it is while another component is looked at.
AdIdle == AdInit /\ adVariant = "first" /\ ~adEmailVerified["u1"]

\* HeaderBar alone
InitHeader == HbInit /\ GmInit /\ PsInit /\ AdIdle /\ TtIdle /\ NfInit
SpecHeader == InitHeader /\ [][HbNext]_vars

\* geminiService alone
InitGemini == HbInit /\ GmInit /\ PsInit /\ AdIdle /\ TtIdle /\ NfInit
SpecGemini == InitGemini /\ [][GmNext]_vars

\* PendingScreen alone
InitPending == HbInit /\ GmInit /\ PsInit /\ AdIdle /\ TtIdle /\ NfInit
SpecPending == InitPending /\ [][PsNext]_vars

\* SiteManagementModal (either variant) and the document store
InitAdmin == HbInit /\ GmInit /\ PsInit /\ AdInit /\ TtIdle /\ NfInit
SpecAdmin == InitAdmin /\ [][AdNext]_vars

\* Every outstanding call eventually completes: each handler suspended at an
\* await is resumed (network-completion callbacks run on the event queue).
AdCallsComplete ==
    /\ WF_vars(AdFetchDone)
    /\ WF_vars(AdStatsMapsDone)
    /\ WF_vars(AdStatsRestaurantsDone)
    /\ WF_vars(AdApproveUpdateDone)
    /\ WF_vars(AdApproveNotifyDone)
    /\ WF_vars(AdRejectDone)
    /\ WF_vars(AdDeleteDone)
    /\ WF_vars(AdResendDone)
    /\ WF_vars(AdReminderDone)

SpecAdminFair == InitAdmin /\ [][AdNext]_vars /\ AdCallsComplete

\* The Tutorial overlay, opened, stepped through and closed by the user
InitTutorial == HbInit /\ GmInit /\ PsInit /\ AdIdle /\ TtInit /\ NfInit
SpecTutorial == InitTutorial /\ [][TtNext]_vars

\* Timers and animation frames run when they are due, and the user keeps
\* pressing the advancing control a step offers: the Start/Next button, or
\* the cutout of a click-required step whenever it is rendered.
TtUserKeepsAdvancing ==
    /\ WF_vars(TtTick)
    /\ WF_vars(TtAnimationFrame)
    /\ WF_vars(TtGoToNextStepFires)
    /\ WF_vars(TtSetCurrentStepFires)
    /\ WF_vars(TtOnCloseFires)
    /\ SF_vars(TtPressNext)
    /\ SF_vars(TtHighlightClick)

SpecTutorialFair == InitTutorial /\ [][TtNext]_vars /\ TtUserKeepsAdvancing

\* The card placement of the Tutorial overlay under scroll and resize
InitCard == HbInit /\ GmInit /\ PsInit /\ AdIdle /\ CardInit /\ NfInit

\* HeaderBar's notification bell and panel
InitNotif == HbInit /\ GmInit /\ PsInit /\ AdIdle /\ TtIdle /\ NfInit
SpecNotif == InitNotif /\ [][NfNext]_vars
SpecCard == InitCard /\ [][CpNext]_vars

\* All components side by side: they share no state, so each is checked in
\* its own specification above.
Init == HbInit /\ GmInit /\ PsInit /\ AdInit /\ TtInit /\ NfInit
Next == HbNext \/ GmNext \/ PsNext \/ AdNext \/ TtNext \/ NfNext
Spec == Init /\ [][Next]_vars

\* ========================================================================
\* Properties of HeaderBar's groupedByMap (checked under SpecHeader)
\* ========================================================================

\* The restaurants of the input that belong to map m
InputOfMap(m) ==
    {hbRestaurants[k] : k \in {j \in DOMAIN hbRestaurants :
                                  hbRestaurants[j].mapId = m}}

ActiveMapPresent ==
    \E k \in DOMAIN hbRestaurants : hbRestaurants[k].mapId = hbActiveMapId

\* C8: for a fixed activeMapId, handing groupedByMap the same restaurants in
\* another order yields the same sequence of groups, the same map name per
\* group and the same sequence of restaurants within each group.
C8_PermutationInvariant ==
    [][hbOp' = "reorder" => hbGrouped' = hbGrouped]_vars

\* C9: whenever some restaurant of the input has mapId = activeMapId, the first
\* group of the result is the active map's and the groups after it are in
\* alphabetical (localeCompare) order of map name.
C9_ActiveFirstThenByName ==
    ActiveMapPresent =>
        /\ hbGrouped[1].mapId = hbActiveMapId
        /\ \A i, j \in 2..Len(hbGrouped) :
             i < j => LocaleCompare(hbGrouped[i].mapName, hbGrouped[j].mapName) <= 0

\* The active map is present, it is not the alphabetically first map, and two
\* more groups follow it.
C9_Witness ==
    /\ ActiveMapPresent
    /\ Len(hbGrouped) = 3
    /\ hbGrouped[1].mapName = "Trips"
    /\ hbGrouped[2].mapName = "Home"
    /\ hbRestaurants[1].mapId # hbActiveMapId

\* C10: the result has exactly one group per distinct mapId of the input, each
\* group holds exactly the input restaurants of its map (none lost, none
\* duplicated, none foreign), and the restaurants of a group are in
\* alphabetical (localeCompare) order of name.
C10_GroupsPartitionInput ==
    /\ \A i, j \in DOMAIN hbGrouped :
         hbGrouped[i].mapId = hbGrouped[j].mapId => i = j
    /\ {hbGrouped[i].mapId : i \in DOMAIN hbGrouped}
         = {hbRestaurants[k].mapId : k \in DOMAIN hbRestaurants}
    /\ \A i \in DOMAIN hbGrouped :
         LET rs == hbGrouped[i].restaurants
         IN  /\ {rs[k] : k \in DOMAIN rs} = InputOfMap(hbGrouped[i].mapId)
             /\ Len(rs) = Cardinality(InputOfMap(hbGrouped[i].mapId))
             /\ \A k \in 1..(Len(rs) - 1) :
                  LocaleCompare(rs[k].name, rs[k + 1].name) <= 0

\* Two maps in the input, one of them with two restaurants that arrive in
\* reverse alphabetical order.
C10_Witness ==
    /\ Len(hbGrouped) = 2
    /\ \E j, k \in DOMAIN hbRestaurants :
         /\ j < k
         /\ hbRestaurants[j].mapId = hbRestaurants[k].mapId
         /\ hbRestaurants[j].name = "Bistro"
         /\ hbRestaurants[k].name = "Alpha"

\* ========================================================================
\* Properties of generateFoodDescription (checked under SpecGemini)
\* ========================================================================

\* The call was given a data:image/jpeg;base64 string and the model call
\* succeeded.
JpegCallSucceeded ==
    /\ gmPc = "resolved"
    /\ gmThrew = "none"
    /\ gmImage.prefix = JpegPrefix

\* C6 as stated: given a data:image/jpeg;base64 string, the function returns
\* the model's text whenever the model call succeeds, the empty text included.
C6_ReturnsModelTextAlways ==
    (JpegCallSucceeded /\ gmModelText # Undefined) => gmResult = gmModelText

\* C6 as amended: given a data:image/jpeg;base64 string, when the model call
\* succeeds the function returns the model's text if that text is non-empty,
\* and "Delicious!" if it is empty or undefined.
C6_ReturnsModelTextOrDefault ==
    JpegCallSucceeded =>
        gmResult = IF gmModelText \in {"", Undefined}
                   THEN "Delicious!"
                   ELSE gmModelText

\* A jpeg data URL was captioned by the model.
C6_Witness ==
    /\ JpegCallSucceeded
    /\ gmModelText = "Golden and crispy!"
    /\ gmResult = "Golden and crispy!"

\* C7: the promise generateFoodDescription returns never rejects; when any
\* step throws or rejects (SDK construction, blob fetch, blob read, model
\* call) it resolves to "Could not generate description.".
C7_NeverPropagates ==
    /\ gmPc # "rejected"
    /\ gmThrew # "none" =>
         /\ gmPc = "resolved"
         /\ gmResult = "Could not generate description."

\* The SDK constructor threw and the call resolved to the fallback.
C7_Witness ==
    /\ gmThrew = "sdk"
    /\ gmPc = "resolved"
    /\ gmResult = "Could not generate description."

\* ========================================================================
\* Properties of PendingScreen's resend cooldown (checked under SpecPending)
\* ========================================================================

\* C5: after a resend the cooldown is 60 and counts down to 0: every tick
\* lowers it by exactly 1, it never leaves 0..60, a tick is pending exactly
\* while it is above 0 (so the countdown goes on until 0 and stops there), and
\* the resend control accepts a click exactly while the cooldown is 0.
C5_CooldownCountsDown ==
    /\ [](/\ resendCooldown \in 0..60
          /\ (psTimer # NoTimer) <=> (resendCooldown > 0)
          /\ psTimer # NoTimer => psTimer = resendCooldown
          /\ (ResendRendered /\ psInflight < MaxResend)
               => (ENABLED PsClickResend <=> resendCooldown = 0))
    /\ [][/\ psOp' = "resolved" => resendCooldown' = 60
          /\ psOp' = "tick" => resendCooldown' = resendCooldown - 1
          /\ psOp' = "click" => resendCooldown = 0
          /\ resendCooldown' # resendCooldown => psOp' \in {"resolved", "tick"}]_vars

\* The countdown that a resend started has reached 0 by a tick.
C5_Witness ==
    /\ psOp = "tick"
    /\ resendCooldown = 0
    /\ psTimer = NoTimer

\* ========================================================================
\* Properties of the admin console (checked under SpecAdmin)
\* ========================================================================

\* How many handlers of one kind are suspended at an await
InflightOfKind(bag, kind) ==
    BagCardinality([r \in {x \in BagToSet(bag) : x.kind = kind} |-> bag[r]])

ApproveOutcomes == {"approveDone", "approveUpdateFailed", "approveNotifyFailed"}

\* C1 as stated: every approve invocation, whatever the outcome of its backend
\* calls, leaves the user's stored status 'approved' and has produced exactly
\* one notification document addressed to that user.
C1_ApproveAlwaysComplete ==
    [][adEvent'.op \in ApproveOutcomes =>
         /\ adEvent'.uid \in DOMAIN db'
         /\ db'[adEvent'.uid].status = "approved"
         /\ adEvent'.notifs = 1]_vars

\* C1 as amended: an approve invocation whose updateDoc succeeds sets the
\* user's stored status to 'approved', and if its addDoc succeeds as well it
\* produces exactly one notification document, addressed to that user's id.
\* When updateDoc fails neither is done; when addDoc fails the status stays
\* set and no notification is produced. Nothing else writes a notification.
C1_ApproveWhenCallsSucceed ==
    [][/\ adEvent'.op = "approveUpdated" =>
            /\ adEvent'.uid \in DOMAIN db'
            /\ db'[adEvent'.uid].status = "approved"
            /\ notifications' = notifications
       /\ adEvent'.op = "approveDone" =>
            /\ adEvent'.updated
            /\ adEvent'.notifs = 1
            /\ notifications' = [notifications EXCEPT ![adEvent'.uid] = @ + 1]
            /\ db' = db
            /\ InflightOfKind(adInflight', "approve")
                 = InflightOfKind(adInflight, "approve") - 1
       /\ adEvent'.op = "approveUpdateFailed" =>
            /\ db' = db
            /\ notifications' = notifications
       /\ adEvent'.op = "approveNotifyFailed" =>
            /\ adEvent'.updated
            /\ adEvent'.notifs = 0
            /\ db' = db
            /\ notifications' = notifications
       /\ notifications' # notifications => adEvent'.op = "approveDone"]_vars

\* An approve of u1 went through: the stored status is 'approved' and u1 has
\* its one welcome notification; nobody else has any.
C1_Witness ==
    /\ adEvent.op = "approveDone"
    /\ adEvent.uid = "u1"
    /\ db["u1"].status = "approved"
    /\ notifications = [u \in UserIds |-> IF u = "u1" THEN 1 ELSE 0]

\* C2: no deleteDoc is ever issued for the document of a user whose role is
\* 'admin', in either variant and from any view, and that document stays in
\* the store.
C2_AdminNeverDeleted ==
    /\ \A req \in BagToSet(adInflight) :
         req.kind = "delete" => Role(req.uid) # "admin"
    /\ \A u \in UserIds : Role(u) = "admin" => u \in DOMAIN db

\* C3: handleRejectUser issues the status update only when the confirmation
\* was accepted; a canceled confirmation leaves the stored status, the local
\* users list, selectedUser and actionLoading as they were.
C3_RejectNeedsConfirmation ==
    [][/\ InflightOfKind(adInflight', "reject") > InflightOfKind(adInflight, "reject")
            => adEvent'.op = "rejectConfirm"
       /\ adEvent'.op = "rejectCancel" =>
            /\ UNCHANGED <<db, users, selectedUser, actionLoading>>
            /\ InflightOfKind(adInflight', "reject")
                 = InflightOfKind(adInflight, "reject")
       /\ (\E u \in DOMAIN db \cap DOMAIN db' :
              db[u].status # "rejected" /\ db'[u].status = "rejected")
            => adEvent'.op = "rejectDone"]_vars

\* A reject prompt was canceled for the pending user.
C3_Witness ==
    /\ adEvent.op = "rejectCancel"
    /\ adEvent.uid = "u1"
    /\ db["u1"].status = "pending"

\* C4: a deleteDoc is issued only on an accepted confirmation: in the first
\* variant only while showDeleteConfirm is true (Confirm Delete), in the
\* stats variant only when window.confirm returned true; a document leaves
\* the store only through such a request, and canceling leaves the stored
\* documents and the local users list unchanged.
C4_DeleteNeedsConfirmation ==
    [][/\ InflightOfKind(adInflight', "delete") > InflightOfKind(adInflight, "delete")
            => /\ adEvent'.op = "deleteConfirm"
               /\ adVariant = "first" => showDeleteConfirm
       /\ adEvent'.op = "deleteCancel" =>
            /\ UNCHANGED <<db, users>>
            /\ InflightOfKind(adInflight', "delete")
                 = InflightOfKind(adInflight, "delete")
       /\ DOMAIN db' # DOMAIN db =>
            /\ adEvent'.op = "deleteDone"
            /\ InflightOfKind(adInflight, "delete") > 0]_vars

\* A confirmed delete removed the user's document in the first variant.
C4_Witness ==
    /\ adVariant = "first"
    /\ adEvent.op = "deleteDone"
    /\ adEvent.uid = "u1"
    /\ "u1" \notin DOMAIN db

\* C11: while the lists of the users view are shown, the pending section holds
\* exactly the fetched users that are not email-verified or whose status is
\* not 'approved', and the approved section exactly those with status
\* 'approved' and a verified email (so a rejected user is listed as pending).
C11_ListsPartitionUsers ==
    ListsRendered =>
        /\ PendingUsers = {u \in DOMAIN users :
                             ~adEmailVerified[u] \/ users[u].status # "approved"}
        /\ ApprovedUsers = {u \in DOMAIN users :
                              users[u].status = "approved" /\ adEmailVerified[u]}

\* C13: approve is not atomic. An invocation whose updateDoc succeeded has set
\* the stored status to 'approved' without touching the local state; when its
\* addDoc then fails it writes no notification, leaves the stored documents,
\* the local users list and selectedUser as they are (they are not brought up
\* to the new status), reports the failure by an alert and resets
\* actionLoading to null.
C13_ApproveNotAtomic ==
    [][/\ adEvent'.op = "approveUpdated" =>
            /\ db'[adEvent'.uid].status = "approved"
            /\ UNCHANGED <<notifications, users, selectedUser>>
       /\ adEvent'.op = "approveNotifyFailed" =>
            /\ adEvent'.updated
            /\ UNCHANGED <<db, notifications, users, selectedUser>>
            /\ AlertShown'
            /\ actionLoading' = "null"]_vars

\* The first variant after such a partial failure: u1 is stored as 'approved',
\* has no notification, and the list and the open detail still say 'pending'.
C13_Witness ==
    /\ adVariant = "first"
    /\ adEvent.op = "approveNotifyFailed"
    /\ adEvent.uid = "u1"
    /\ db["u1"].status = "approved"
    /\ notifications["u1"] = 0
    /\ users["u1"].status = "pending"
    /\ selectedUser.id = "u1"
    /\ selectedUser.status = "pending"
    /\ actionLoading = "null"


\* C14: approve is not idempotent. An approve invocation that finds the stored
\* status already 'approved' and whose two calls succeed writes one more
\* welcome notification for that user; notifications are never merged or
\* removed, so each fully successful invocation for a user adds one to the
\* notifications addressed to that user.
C14_ApproveNotIdempotent ==
    [][/\ (adEvent'.op = "approveDone" /\ adEvent'.prior = "approved") =>
            notifications'[adEvent'.uid] = notifications[adEvent'.uid] + 1
       /\ \A u \in UserIds :
            /\ notifications'[u] >= notifications[u]
            /\ notifications'[u] > notifications[u] =>
                 /\ adEvent'.op = "approveDone"
                 /\ adEvent'.uid = u
                 /\ notifications'[u] = notifications[u] + 1]_vars

\* The second fully successful approve of u1, started when u1 was already
\* stored as 'approved', has left u1 with two welcome notifications.
C14_Witness ==
    /\ adEvent.op = "approveDone"
    /\ adEvent.uid = "u1"
    /\ adEvent.prior = "approved"
    /\ notifications["u1"] = 2


\* ========================================================================
\* Properties of PendingScreen's view (checked under SpecPending)
\* ========================================================================

\* C12: the view is decided by (emailVerified, adminApproved) alone: the
\* 'manually approved' view is shown iff adminApproved and not emailVerified,
\* otherwise the verification view; the resend action is offered iff the
\* verification view is shown and emailVerified is false; no step that leaves
\* the two props alone changes what is shown.
C12_ViewFollowsProps ==
    /\ [](/\ RenderedView \in {"manuallyApproved", "verification"}
          /\ (RenderedView = "manuallyApproved")
               <=> (psAdminApproved /\ ~psEmailVerified)
          /\ ResendRendered
               <=> (RenderedView = "verification" /\ ~psEmailVerified))
    /\ [][UNCHANGED <<psEmailVerified, psAdminApproved>> =>
            /\ RenderedView' = RenderedView
            /\ ResendRendered' = ResendRendered]_vars

\* The verified and admin-approved user sees the verification view without a
\* resend action, while a cooldown from an earlier resend is still running.
C12_Witness ==
    /\ psAdminApproved
    /\ psEmailVerified
    /\ RenderedView = "verification"
    /\ ~ResendRendered
    /\ resendCooldown > 0

\* ------------------------------------------------------------------------
\* C15: loading flags
\* ------------------------------------------------------------------------

NoCallOutstanding == adInflight = EmptyBag

AllLoadingFlagsClear ==
    /\ ~isLoading
    /\ actionLoading = "null"
    /\ ~isLoadingStats
    /\ ~isSendingReminder
    /\ ~resendingEmail

\* C15: whenever no call of the admin modal is outstanding, isLoading,
\* isLoadingStats, isSendingReminder and resendingEmail are false and
\* actionLoading is null; and when every outstanding call eventually
\* completes, each flag that is set is eventually cleared.
C15_LoadingFlagsCleared ==
    /\ [](NoCallOutstanding => AllLoadingFlagsClear)
    /\ (isLoading ~> ~isLoading)
    /\ ((actionLoading # "null") ~> (actionLoading = "null"))
    /\ (isLoadingStats ~> ~isLoadingStats)
    /\ (isSendingReminder ~> ~isSendingReminder)
    /\ (resendingEmail ~> ~resendingEmail)

\* A reminder's addDoc has just failed: the alert is shown, nothing is
\* outstanding any more and every flag is clear.
C15_Witness ==
    /\ adEvent.op = "reminderFailed"
    /\ NoCallOutstanding
    /\ AllLoadingFlagsClear

\* ------------------------------------------------------------------------
\* C16: double submission
\* ------------------------------------------------------------------------

\* handleApproveUser, handleRejectUser or handleDeleteUser for user u is
\* suspended at an await
ActionInFlight(u) ==
    \E req \in BagToSet(adInflight) :
        req.kind \in {"approve", "reject", "delete"} /\ req.uid = u

\* Some enabled control would start an approve, reject or delete request
\* for user u
ActionControlEnabled(u) ==
    \/ ApproveRejectEnabled(u)
    \/ ConfirmDeleteEnabled(u)
    \/ RowDeleteEnabled(u)
    \/ DetailDeleteEnabled(u)

\* C16: while an approve, reject or delete request for a user is in flight,
\* no enabled control of the modal starts another approve, reject or delete
\* request for that user.
C16_NoDoubleSubmit ==
    \A u \in UserIds : ActionInFlight(u) => ~ActionControlEnabled(u)

\* ------------------------------------------------------------------------
\* C17: failed user-list fetch
\* ------------------------------------------------------------------------

FetchOutstanding ==
    \E req \in BagToSet(adInflight) : req.kind = "fetch"

\* C17: a failed user-list fetch sets fetchError to the error's message, or
\* to the default text when there is none, resets isLoading and leaves the
\* users list as it was, and the users view then shows the error banner and
\* not the lists; pressing Try Again clears fetchError while the new fetch
\* is still outstanding.
C17_FetchFailureShowsBanner ==
    [][ /\ adEvent'.op = "fetchFailed" =>
            /\ fetchError' = (IF adEvent'.message # "" THEN adEvent'.message
                              ELSE DefaultFetchError)
            /\ fetchError' # "null"
            /\ ~isLoading'
            /\ users' = users
            /\ currentView' = "users" => ErrorBannerRendered' /\ ~ListsRendered'
        /\ adEvent'.op = "retry" =>
            /\ ErrorBannerRendered
            /\ fetchError' = "null"
            /\ FetchOutstanding'
      ]_vars

\* A fetch has just failed with an error that carries no message, after an
\* earlier fetch had loaded the list: the banner shows the default text.
C17_Witness ==
    /\ adEvent.op = "fetchFailed"
    /\ adEvent.message = ""
    /\ users # NoUsers
    /\ ErrorBannerRendered
    /\ fetchError = DefaultFetchError

\* ------------------------------------------------------------------------
\* C18: the order of the tutorial steps
\* ------------------------------------------------------------------------

\* C18: while the tutorial is active, every change of currentStep goes from
\* step i to step i + 1 of the fixed sequence, whatever the timing of the
\* clicks and of the pending timers.
C18_StepsInOrder ==
    [][ (isActive /\ isActive' /\ currentStep' # currentStep) =>
            StepIndexOf(currentStep') = StepIndexOf(currentStep) + 1 ]_vars

\* ------------------------------------------------------------------------
\* C19: what advances a tutorial step
\* ------------------------------------------------------------------------

\* The step moves forward while the tutorial stays active
StepAdvances ==
    /\ isActive
    /\ isActive'
    /\ StepIndexOf(currentStep') > StepIndexOf(currentStep)

\* C19: a click-required step is left forward only by the timers of a click
\* on its highlighted target, and every such click forwards one synthetic
\* click to the target element; any other step is left forward only by the
\* timer of a press of its Start/Next button.
C19_AdvanceOnlyOnUserAction ==
    [][ /\ StepAdvances =>
             /\ ttEvent'.op = "setCurrentStep"
             /\ ttEvent'.idx = StepIndexOf(currentStep)
             /\ ttEvent'.origin = (IF RequiresClick(currentStep)
                                   THEN "highlight" ELSE "button")
        /\ ttEvent'.op = "highlightClick" => ttEvent'.forwarded = 1
      ]_vars

\* ------------------------------------------------------------------------
\* C20: the card stays inside the viewport
\* ------------------------------------------------------------------------

\* C20: for every highlighted rectangle and window size the card that
\* getCardPosition places lies inside the viewport with the 16px padding:
\* 16 <= left <= viewportWidth - cardWidth - 16 and
\* 16 <= top <= viewportHeight - 280 - 16.
C20_CardInsideViewport ==
    highlightRect # NoRect =>
        /\ ~CardPosition.centered
        /\ 2 * CardPadding <= CardPosition.left2
        /\ CardPosition.left2 <= 2 * (viewport.width - CardWidth(viewport) - CardPadding)
        /\ CardPadding <= CardPosition.top
        /\ CardPosition.top <= viewport.height - CardHeight - CardPadding

\* ------------------------------------------------------------------------
\* C21: who is listed as approved
\* ------------------------------------------------------------------------

\* C21: every user of the list whose status is 'approved' is in the approved
\* section and not in the pending section, whether the status came from the
\* email verification or from an admin's approval (so a manually approved
\* user with an unverified email moves from pending to approved).
C21_ApprovedStatusListedApproved ==
    \A u \in DOMAIN users :
        users[u].status = "approved" => (u \in ApprovedUsers /\ u \notin PendingUsers)

\* ------------------------------------------------------------------------
\* C22: the open detail and the list entry
\* ------------------------------------------------------------------------

\* C22: in the first variant, whenever selectedUser is non-null it carries
\* the status and the approval fields of the users-list entry with the same
\* id: a completed approve or reject of one user never changes the displayed
\* record of another, also when the admin went back and opened another
\* user's detail while the request was in flight.
C22_SelectedMatchesList ==
    (adVariant = "first" /\ selectedUser # NoUser) =>
        /\ selectedUser.id \in DOMAIN users
        /\ selectedUser = ListEntry(selectedUser.id)

\* ------------------------------------------------------------------------
\* C23: whose usage counts the detail view shows
\* ------------------------------------------------------------------------

\* C23: in the stats variant, whenever userStats is non-null it is the result
\* of the stats fetch issued for selectedUser: counts that were computed are
\* those of the selected user, and every completion of fetchUserStats that
\* sets userStats (counts or the zeros of its catch) belongs to the fetch of
\* the user selected at that moment, whatever the order of completion.
C23_StatsOfSelectedUser ==
    /\ [](userStats \notin {"null", "zeros"} => userStats = selectedUser.id)
    /\ [][adEvent'.op \in {"statsLoaded", "statsFailed"} =>
              adEvent'.uid = selectedUser'.id]_vars

\* ------------------------------------------------------------------------
\* C24: the tutorial can be completed
\* ------------------------------------------------------------------------

\* C24: from every step of the active tutorial, a user who keeps performing
\* the advancing action of the step at hand (Start/Next, or a click on the
\* highlighted target) eventually reaches 'complete' (or has closed the
\* tutorial), also when a click-required step's element is not in the page.
C24_TutorialCompletes ==
    [](isActive => <>(currentStep = "complete" \/ ~isActive))

\* ------------------------------------------------------------------------
\* C25: the step the tutorial opens at
\* ------------------------------------------------------------------------

\* C25: while the tutorial is inactive currentStep is 'welcome', so every
\* activation starts at the 'welcome' step, also when a step-advance timer
\* that was scheduled before the close fires after it.
C25_InactiveAtWelcome ==
    ~isActive => currentStep = "welcome"

\* ------------------------------------------------------------------------
\* C26: the notification panel stays open
\* ------------------------------------------------------------------------

\* C26: an opened notification panel is closed only after a close action
\* (handleNotifToggle or closeNotifications) issued since that opening: the
\* timer of an earlier close action never closes a panel that was opened
\* again later.
C26_OpenUntilClosedByUser ==
    [][(isNotifOpen /\ ~isNotifOpen') => nfCloseIssued]_vars

\* ------------------------------------------------------------------------
\* C27: the two sections and the summary line
\* ------------------------------------------------------------------------

\* C27: in both variants every user of the list is in exactly one of the
\* two sections, so the summary line satisfies
\* total users = pending count + approved count after any sequence of
\* fetch, approve, reject and delete actions.
C27_SectionsPartitionUsers ==
    /\ PendingUsers \cap ApprovedUsers = {}
    /\ PendingUsers \cup ApprovedUsers = DOMAIN users
    /\ Cardinality(DOMAIN users) = Cardinality(PendingUsers) + Cardinality(ApprovedUsers)

\* ------------------------------------------------------------------------
\* C28: where a delete leaves the modal
\* ------------------------------------------------------------------------

\* C28: pressing Delete User, canceling the confirmation, confirming it and
\* a delete request that fails all leave the view and the selected user as
\* they are and start no navigation; only a delete that was confirmed and
\* succeeded takes the modal back to the users list.
C28_DeleteNavigatesOnlyOnSuccess ==
    [][adEvent'.op \in {"deletePress", "deleteCancel", "deleteConfirm", "deleteFailed"}
          => UNCHANGED <<currentView, selectedUser, adTimers>>]_vars

\* ------------------------------------------------------------------------
\* C29: the cooldown as a rate limit (checked under SpecPending)
\* ------------------------------------------------------------------------

\* C29: at most one call of onResendVerification is in flight at a time; the
\* resend control is activated, and a resend succeeds, only when the
\* cooldown started by the previous successful resend has reached 0 (so a
\* full cooldown lies between two successful resends); a resend that fails
\* starts no cooldown.
C29_CooldownRateLimits ==
    /\ [](psInflight <= 1)
    /\ [][/\ psOp' = "click" => resendCooldown = 0
          /\ psOp' = "resolved" => resendCooldown = 0
          /\ psOp' = "rejected" => UNCHANGED <<resendCooldown, psTimer>>]_vars

====
